---- MODULE Spec2Model ----
(***************************************************************************)
(* A model of the dial config patch engine of src/dial/update_dials.py.    *)
(*                                                                         *)
(* The document is the nested JSON tree the engine edits in place.  A      *)
(* Python dict is a function whose DOMAIN is the set of keys present, a    *)
(* Python list is a sequence.  The state holds the in-memory document      *)
(* (data), the document as it was before the last call of                  *)
(* apply_dial_overrides (pre), the override list that call was given       *)
(* (last) and the exception it ended with (err, NoError when it returned). *)
(* pc is the caller's position: "idle" between calls, "returned" when a    *)
(* call has just ended and its arguments and outcome are still at hand.    *)
(* Names (states, transitions, details, cohorts) and target shorthands are *)
(* Python strings, modelled as sequences of characters.  out is the value  *)
(* the last call of a helper (a parser, the expander, the generator)       *)
(* returned, and file is the output file of run mode: empty until          *)
(* save_json has written the document to it.                               *)
(***************************************************************************)
EXTENDS Integers, Sequences, FiniteSets, TLC

VARIABLES data, pre, last, err, pc, wellStart, out, file

vars == <<data, pre, last, err, pc, wellStart, out, file>>

\* ------------------------------------------------------------- bounds
\* Longest override list handed to one call (beyond single overrides).
MaxBatch == 2

\* Longest list of specs handed to one call when the specs use targets,
\* target, disabled or enabled, and longest targets list of a spec.
MaxSpecs == 2
MaxTargets == 2

\* Longest version string tried character by character, and most digits
\* of a patch or extra segment of the version strings built from segments.
MaxVersionLen == 5
MaxDigits == 2

\* Longest state or transition name, and longest shorthand string, given
\* to the shorthand parser and formatter.
MaxNameLen == 2
MaxShorthandLen == 6

\* Most flat months and most ramp months given to dial_schedule, beside
\* its defaults.
MaxFlat == 2
MaxRamp == 3

\* Most columns of the header rows given to
\* build_columns_from_status_header.
MaxColumns == 3

\* ------------------------------------------------- Python dict helpers
\* A Python str is the sequence of its characters; None is a value no
\* character sequence equals.
None == <<"None">>
\* What a call that returned (raised nothing) leaves in err.
NoError == [type |-> "NoError"]
Raised(e) == e.type # "NoError"

Has(d, k) == k \in DOMAIN d
Get(d, k, default) == IF k \in DOMAIN d THEN d[k] ELSE default
Put(d, k, v) == [x \in (DOMAIN d) \cup {k} |-> IF x = k THEN v ELSE d[x]]
Del(d, k) == [x \in (DOMAIN d) \ {k} |-> d[x]]
EmptyDict == [x \in {} |-> None]

\* ------------------------------------------------------ the dial string
\* Dial multipliers are carried in units of 1e-4; round(x, 3) brings them
\* to thousandths.  The inputs of the model avoid exact ties (a last
\* digit of 5), where the result depends on the binary float.
Round3(v) == (v + 5) \div 10

FlatMonths == 36
RampMonths == 23

RECURSIVE StripZeros(_)
StripZeros(digits) ==
    IF Len(digits) > 1 /\ digits[Len(digits)] = 0
    THEN StripZeros(SubSeq(digits, 1, Len(digits) - 1))
    ELSE digits

\* The text Python's f"{x}" gives for a float that is m thousandths:
\* integer part, ".", and the decimals without trailing zeros ("1.0",
\* "1.05", "0.957").
FloatRepr(m) ==
    LET a == IF m < 0 THEN -m ELSE m
        f == a % 1000
    IN  [neg |-> m < 0,
         int |-> a \div 1000,
         frac |-> StripZeros(<<f \div 100, (f \div 10) % 10, f % 10>>)]

\* round(((24 - i) * x + i - 1) / 23, 3) in thousandths; 23 is odd, so
\* the quotient is never an exact tie.
RampValue(xm, i) ==
    ((2 * ((RampMonths + 1 - i) * xm + (i - 1) * 1000)) + RampMonths)
        \div (2 * RampMonths)

\* One token "<num>x for <months>" of the dial string.
Token(m, months) == [num |-> FloatRepr(m), months |-> months]

\* dial(x): the flat token, 23 ramp tokens, "1.0x for 1" and "1x", joined
\* by blanks; here the sequence of its tokens.
dial(x) ==
    LET xm == Round3(x)
    IN  <<Token(xm, FlatMonths)>>
        \o [i \in 1..RampMonths |-> Token(RampValue(xm, i), 1)]
        \o <<[num |-> FloatRepr(1000), months |-> 1], [lit |-> "1x"]>>

_is_identity_dial(value) == Round3(value) = 1000

\* ------------------------------------------------------- the document
\* A node's "Detail" is either a string (the model detail tag of a leaf)
\* or a dict (the detail map of a grouped transition); JStr and JDict tag
\* the two so that isinstance(x, dict) can be asked of the value.
JStr(s) == [str |-> s]
JDict(d) == [dict |-> d]
IsDict(v) == Has(v, "dict")
\* The value of a spec's targets key is tagged too: JList for a list.
JList(l) == [list |-> l]
IsList(v) == Has(v, "list")

ValueError(msg) == [type |-> "ValueError", msg |-> msg]
KeyError(msg) == [type |-> "KeyError", msg |-> msg]

\* data["State"][state]["Transitions"][transition], or the KeyError the
\* lookup raises, which the function turns into its own KeyError.
_get_transition_root(d, state, transition) ==
    IF /\ Has(d, "State")
       /\ Has(d["State"], state)
       /\ Has(d["State"][state], "Transitions")
       /\ Has(d["State"][state]["Transitions"], transition)
    THEN [err |-> NoError, path |-> <<state, transition, None>>]
    ELSE [err |-> [type |-> "KeyError", msg |-> "Missing transition path",
                   state |-> state, transition |-> transition],
          path |-> <<>>]

\* The node a (state, transition, detail) triple names, as the path to
\* it: the transition node itself when detail is None, else its
\* Detail[detail] entry.
\* _target_for_shock that falls back to the transition node when the
\* detail is missing.
_target_for_shock_falls_back(d, state, transition, detail) ==
    _get_transition_root(d, state, transition)

_target_for_shock(d, state, transition, detail) ==
    LET r == _get_transition_root(d, state, transition)
    IN  IF Raised(r.err) THEN r
        ELSE IF detail = None THEN r
        ELSE LET transition_root == d["State"][state]["Transitions"][transition]
             IN  IF \/ ~Has(transition_root, "Detail")
                    \/ ~IsDict(transition_root["Detail"])
                    \/ ~Has(transition_root["Detail"].dict, detail)
                 THEN [err |-> [type |-> "KeyError", msg |-> "Missing detail path",
                                state |-> state, transition |-> transition,
                                detail |-> detail],
                       path |-> <<>>]
                 ELSE [err |-> NoError, path |-> <<state, transition, detail>>]

\* The dict a resolved path refers to, and the document after that dict
\* was mutated in place to node.
NodeAt(d, path) ==
    LET root == d["State"][path[1]]["Transitions"][path[2]]
    IN  IF path[3] = None THEN root ELSE root["Detail"].dict[path[3]]

SetNodeAt(d, path, node) ==
    IF path[3] = None
    THEN [d EXCEPT !["State"][path[1]]["Transitions"][path[2]] = node]
    ELSE [d EXCEPT !["State"][path[1]]["Transitions"][path[2]]["Detail"].dict[path[3]] = node]

\* ------------------------------------------- shock representation
\* shock.get("HasCohort") is True, for a shock that is there (a dict).
HasCohortTrue(shock) == Has(shock, "HasCohort") /\ shock["HasCohort"] = TRUE

\* isinstance(shock, dict) and (shock.get("HasCohort") is True or
\* "Cohorts" in shock), for a shock that is there.
_is_cohort_shock(shock) == HasCohortTrue(shock) \/ Has(shock, "Cohorts")

\* _upsert_simple_shock without its guard: the Shock is overwritten
\* whatever its shape.
_upsert_simple_shock_unguarded(target, start_date, dial_value) ==
    [node |-> Put(target, "Shock",
                  [StartDate |-> start_date, Detail |-> dial(dial_value)]),
     err |-> NoError]

\* Every operation on a resolved node gives the node as the call leaves
\* it and the exception it raised (NoError when it returned).
_upsert_simple_shock(target, start_date, dial_value) ==
    IF /\ Has(target, "Shock")
       /\ (Has(target["Shock"], "Cohorts") \/ HasCohortTrue(target["Shock"]))
    THEN [node |-> target, err |-> ValueError("Refusing to overwrite cohort shock")]
    ELSE [node |-> Put(target, "Shock",
                       [StartDate |-> start_date, Detail |-> dial(dial_value)]),
          err |-> NoError]

NewCohortShock == [HasCohort |-> TRUE, Cohorts |-> <<>>]

\* _ensure_cohort_shock that converts a simple shock where it stands:
\* Cohorts and HasCohort are added to it, StartDate and Detail stay.
_ensure_cohort_shock_in_place(target, allow_create, allow_convert) ==
    IF ~Has(target, "Shock") /\ ~allow_create
    THEN [node |-> target, err |-> ValueError("Missing cohort shock")]
    ELSE
        LET shock1 == IF ~Has(target, "Shock") THEN NewCohortShock ELSE target["Shock"]
        IN  IF /\ ~Has(shock1, "Cohorts")
               /\ ~HasCohortTrue(shock1)
               /\ ~allow_convert
            THEN [node |-> target,
                  err |-> ValueError("Refusing to overwrite non-cohort shock")]
            ELSE
            LET shock2 == IF Has(shock1, "Cohorts") THEN shock1
                          ELSE Put(shock1, "Cohorts", <<>>)
            IN  [node |-> Put(target, "Shock", Put(shock2, "HasCohort", TRUE)),
                 err |-> NoError]

_ensure_cohort_shock(target, allow_create, allow_convert) ==
    IF ~Has(target, "Shock") /\ ~allow_create
    THEN [node |-> target, err |-> ValueError("Missing cohort shock")]
    ELSE
        LET shock1 == IF ~Has(target, "Shock") THEN NewCohortShock ELSE target["Shock"]
        IN  IF /\ ~Has(shock1, "Cohorts")
               /\ ~HasCohortTrue(shock1)
               /\ ~allow_convert
            THEN [node |-> target,
                  err |-> ValueError("Refusing to overwrite non-cohort shock")]
            ELSE
            LET shock2 == IF Has(shock1, "Cohorts") THEN shock1
                          ELSE IF HasCohortTrue(shock1)
                               THEN Put(shock1, "Cohorts", <<>>)
                               ELSE NewCohortShock
                shock3 == IF ~HasCohortTrue(shock2)
                          THEN Put(shock2, "HasCohort", TRUE)
                          ELSE shock2
            IN  [node |-> Put(target, "Shock", shock3), err |-> NoError]

\* _upsert_cohort_shock that hands add_cohort to _ensure_cohort_shock as
\* allow_convert too.
_upsert_cohort_shock_add_converts(target, cohort, start_date, dial_value, add_cohort0, convert_cohort) ==
    LET add_cohort == add_cohort0 \/ convert_cohort
        r == _ensure_cohort_shock(target, add_cohort, add_cohort)
    IN  IF Raised(r.err) THEN r
        ELSE
        LET cohorts == r.node["Shock"]["Cohorts"]
            found == \E i \in 1..Len(cohorts) : Get(cohorts[i], "Cohort", None) = cohort
            cohorts1 == IF found THEN cohorts
                        ELSE Append(cohorts, [Cohort |-> cohort])
            cohorts2 == [i \in 1..Len(cohorts1) |->
                           IF Get(cohorts1[i], "Cohort", None) = cohort
                           THEN Put(Put(cohorts1[i], "StartDate", start_date),
                                    "Detail", dial(dial_value))
                           ELSE cohorts1[i]]
        IN  [node |-> [r.node EXCEPT !["Shock"]["Cohorts"] = cohorts2],
             err |-> NoError]

\* _upsert_cohort_shock whose last loop runs over every entry of the
\* list instead of the matching ones.
_upsert_cohort_shock_updates_all(target, cohort, start_date, dial_value, add_cohort0, convert_cohort) ==
    LET add_cohort == add_cohort0 \/ convert_cohort
        r == _ensure_cohort_shock(target, add_cohort, convert_cohort)
    IN  IF Raised(r.err) THEN r
        ELSE
        LET cohorts == r.node["Shock"]["Cohorts"]
            found == \E i \in 1..Len(cohorts) : Get(cohorts[i], "Cohort", None) = cohort
        IN  IF ~found /\ ~add_cohort
            THEN [node |-> r.node, err |-> KeyError("Missing cohort")]
            ELSE
            LET cohorts1 == IF found THEN cohorts
                            ELSE Append(cohorts, [Cohort |-> cohort])
                cohorts2 == [i \in 1..Len(cohorts1) |->
                               Put(Put(cohorts1[i], "StartDate", start_date),
                                   "Detail", dial(dial_value))]
            IN  [node |-> [r.node EXCEPT !["Shock"]["Cohorts"] = cohorts2],
                 err |-> NoError]

\* _upsert_cohort_shock that writes to the first matching entry only.
_upsert_cohort_shock_first_match(target, cohort, start_date, dial_value, add_cohort0, convert_cohort) ==
    LET add_cohort == add_cohort0 \/ convert_cohort
        r == _ensure_cohort_shock(target, add_cohort, convert_cohort)
    IN  IF Raised(r.err) THEN r
        ELSE
        LET cohorts == r.node["Shock"]["Cohorts"]
            found == \E i \in 1..Len(cohorts) : Get(cohorts[i], "Cohort", None) = cohort
        IN  IF ~found /\ ~add_cohort
            THEN [node |-> r.node, err |-> KeyError("Missing cohort")]
            ELSE
            LET cohorts1 == IF found THEN cohorts
                            ELSE Append(cohorts, [Cohort |-> cohort])
                first == CHOOSE i \in 1..Len(cohorts1) :
                            /\ Get(cohorts1[i], "Cohort", None) = cohort
                            /\ \A j \in 1..(i - 1) : Get(cohorts1[j], "Cohort", None) # cohort
                cohorts2 == [i \in 1..Len(cohorts1) |->
                               IF i = first
                               THEN Put(Put(cohorts1[i], "StartDate", start_date),
                                        "Detail", dial(dial_value))
                               ELSE cohorts1[i]]
            IN  [node |-> [r.node EXCEPT !["Shock"]["Cohorts"] = cohorts2],
                 err |-> NoError]

\* _upsert_cohort_shock that, asked to add, appends an entry even when
\* the list holds the cohort already.
_upsert_cohort_shock_always_appends(target, cohort, start_date, dial_value, add_cohort0, convert_cohort) ==
    LET add_cohort == add_cohort0 \/ convert_cohort
        r == _ensure_cohort_shock(target, add_cohort, convert_cohort)
    IN  IF Raised(r.err) THEN r
        ELSE
        LET cohorts == r.node["Shock"]["Cohorts"]
            found == \E i \in 1..Len(cohorts) : Get(cohorts[i], "Cohort", None) = cohort
        IN  IF ~found /\ ~add_cohort
            THEN [node |-> r.node, err |-> KeyError("Missing cohort")]
            ELSE
            LET cohorts1 == IF found /\ ~add_cohort THEN cohorts
                            ELSE Append(cohorts, [Cohort |-> cohort])
                cohorts2 == [i \in 1..Len(cohorts1) |->
                               IF Get(cohorts1[i], "Cohort", None) = cohort
                               THEN Put(Put(cohorts1[i], "StartDate", start_date),
                                        "Detail", dial(dial_value))
                               ELSE cohorts1[i]]
            IN  [node |-> [r.node EXCEPT !["Shock"]["Cohorts"] = cohorts2],
                 err |-> NoError]

_upsert_cohort_shock(target, cohort, start_date, dial_value, add_cohort0, convert_cohort) ==
    LET add_cohort == add_cohort0 \/ convert_cohort
        r == _ensure_cohort_shock(target, add_cohort, convert_cohort)
    IN  IF Raised(r.err) THEN r
        ELSE
        LET cohorts == r.node["Shock"]["Cohorts"]
            found == \E i \in 1..Len(cohorts) : Get(cohorts[i], "Cohort", None) = cohort
        IN  IF ~found /\ ~add_cohort
            THEN [node |-> r.node, err |-> KeyError("Missing cohort")]
            ELSE
            LET cohorts1 == IF found THEN cohorts
                            ELSE Append(cohorts, [Cohort |-> cohort])
                cohorts2 == [i \in 1..Len(cohorts1) |->
                               IF Get(cohorts1[i], "Cohort", None) = cohort
                               THEN Put(Put(cohorts1[i], "StartDate", start_date),
                                        "Detail", dial(dial_value))
                               ELSE cohorts1[i]]
            IN  [node |-> [r.node EXCEPT !["Shock"]["Cohorts"] = cohorts2],
                 err |-> NoError]

RECURSIVE Without(_, _)
\* [entry for entry in cohorts if entry.get("Cohort") != cohort]
Without(cohorts, cohort) ==
    IF cohorts = <<>> THEN <<>>
    ELSE IF Get(Head(cohorts), "Cohort", None) # cohort
         THEN <<Head(cohorts)>> \o Without(Tail(cohorts), cohort)
         ELSE Without(Tail(cohorts), cohort)

\* _remove_shock that keeps the pruned list even when it is empty.
_remove_shock_keep_empty(target, cohort) ==
    IF ~Has(target, "Shock") THEN [node |-> target, err |-> NoError]
    ELSE IF cohort = None \/ ~_is_cohort_shock(target["Shock"])
    THEN [node |-> Del(target, "Shock"), err |-> NoError]
    ELSE IF ~Has(target["Shock"], "Cohorts") THEN [node |-> target, err |-> NoError]
    ELSE [node |-> [target EXCEPT !["Shock"]["Cohorts"] = Without(@, cohort)],
          err |-> NoError]

\* _remove_shock that leaves a simple Shock alone when a cohort is named.
_remove_shock_keeps_simple(target, cohort) ==
    IF ~Has(target, "Shock") THEN [node |-> target, err |-> NoError]
    ELSE IF cohort = None THEN [node |-> Del(target, "Shock"), err |-> NoError]
    ELSE IF ~_is_cohort_shock(target["Shock"]) \/ ~Has(target["Shock"], "Cohorts")
    THEN [node |-> target, err |-> NoError]
    ELSE IF Len(Without(target["Shock"]["Cohorts"], cohort)) = Len(target["Shock"]["Cohorts"])
    THEN [node |-> target, err |-> NoError]
    ELSE IF Without(target["Shock"]["Cohorts"], cohort) # <<>>
    THEN [node |-> [target EXCEPT !["Shock"]["Cohorts"] = Without(@, cohort)],
          err |-> NoError]
    ELSE [node |-> Del(target, "Shock"), err |-> NoError]

_remove_shock(target, cohort) ==
    IF ~Has(target, "Shock") THEN [node |-> target, err |-> NoError]
    ELSE
    LET shock == target["Shock"]
    IN  IF cohort = None THEN [node |-> Del(target, "Shock"), err |-> NoError]
        ELSE IF ~_is_cohort_shock(shock)
             THEN [node |-> Del(target, "Shock"), err |-> NoError]
        ELSE IF ~Has(shock, "Cohorts") THEN [node |-> target, err |-> NoError]
        ELSE LET cohorts == shock["Cohorts"]
                 remaining == Without(cohorts, cohort)
             IN  IF Len(remaining) = Len(cohorts)
                 THEN [node |-> target, err |-> NoError]
                 ELSE IF remaining # <<>>
                      THEN [node |-> [target EXCEPT !["Shock"]["Cohorts"] = remaining],
                            err |-> NoError]
                      ELSE [node |-> Del(target, "Shock"), err |-> NoError]

\* ------------------------------------------------- target shorthand
\* The index of the first ch in str, 0 when there is none.
RECURSIVE Find(_, _, _)
Find(str, ch, from) ==
    IF from > Len(str) THEN 0
    ELSE IF str[from] = ch THEN from
    ELSE Find(str, ch, from + 1)

\* The index where the first "->" of str starts, 0 when there is none.
RECURSIVE FindArrow(_, _)
FindArrow(str, from) ==
    IF from + 1 > Len(str) THEN 0
    ELSE IF str[from] = "-" /\ str[from + 1] = ">" THEN from
    ELSE FindArrow(str, from + 1)

\* str.strip(): without its leading and trailing blanks.
RECURSIVE Strip(_)
Strip(str) ==
    IF str = <<>> THEN str
    ELSE IF Head(str) = " " THEN Strip(Tail(str))
    ELSE IF str[Len(str)] = " " THEN Strip(SubSeq(str, 1, Len(str) - 1))
    ELSE str

\* _parse_target_shorthand that sets detail on the target even when the
\* string names none.
_parse_target_shorthand_keeps_empty_detail(value) ==
    LET at == Find(value, "@", 1)
        raw == IF at = 0 THEN value ELSE SubSeq(value, 1, at - 1)
        ar == FindArrow(raw, 1)
        state == Strip(IF ar = 0 THEN raw ELSE SubSeq(raw, 1, ar - 1))
        transition == Strip(IF ar = 0 THEN <<>> ELSE SubSeq(raw, ar + 2, Len(raw)))
    IN  IF ar = 0 \/ state = <<>> \/ transition = <<>>
        THEN [err |-> ValueError("Target shorthand must be 'STATE->TRANSITION' or 'STATE->TRANSITION@DETAIL'"),
              target |-> EmptyDict]
        ELSE [err |-> NoError,
              target |-> [state |-> state, transition |-> transition,
                          detail |-> Strip(IF at = 0 THEN <<>>
                                           ELSE SubSeq(value, at + 1, Len(value)))]]

_parse_target_shorthand(value) ==
    LET at == Find(value, "@", 1)
        raw == IF at = 0 THEN value ELSE SubSeq(value, 1, at - 1)
        detail0 == IF at = 0 THEN <<>> ELSE SubSeq(value, at + 1, Len(value))
        ar == FindArrow(raw, 1)
        state == Strip(IF ar = 0 THEN raw ELSE SubSeq(raw, 1, ar - 1))
        transition == Strip(IF ar = 0 THEN <<>> ELSE SubSeq(raw, ar + 2, Len(raw)))
        detail == Strip(detail0)
    IN  IF ar = 0 \/ state = <<>> \/ transition = <<>>
        THEN [err |-> ValueError("Target shorthand must be 'STATE->TRANSITION' or 'STATE->TRANSITION@DETAIL'"),
              target |-> EmptyDict]
        ELSE [err |-> NoError,
              target |-> IF detail # <<>>
                         THEN [state |-> state, transition |-> transition, detail |-> detail]
                         ELSE [state |-> state, transition |-> transition]]

_format_target_shorthand(state, transition, detail) ==
    LET value == state \o <<"-", ">">> \o transition
    IN  IF detail # None /\ detail # <<>> THEN value \o <<"@">> \o detail ELSE value

\* ------------------------------------------------------ override specs
\* dict.update: base with every key of other set to other's value.
Update(base, other) ==
    [k \in (DOMAIN base) \cup (DOMAIN other) |->
        IF k \in DOMAIN other THEN other[k] ELSE base[k]]

\* The loop over the targets that puts each merged override in front of
\* the ones before it.
RECURSIVE ExpandTargets_reversed(_, _)
ExpandTargets_reversed(base, targets) ==
    IF targets = <<>> THEN [err |-> NoError, list |-> <<>>]
    ELSE
    LET target_entry == Head(targets)
        parsed == IF IsDict(target_entry)
                  THEN IF ~Has(target_entry.dict, "state") \/ ~Has(target_entry.dict, "transition")
                       THEN [err |-> KeyError("Each target must include state and transition"),
                             target |-> EmptyDict]
                       ELSE [err |-> NoError, target |-> target_entry.dict]
                  ELSE IF Has(target_entry, "str")
                  THEN _parse_target_shorthand(target_entry.str)
                  ELSE [err |-> ValueError("Each target must be an object or shorthand string"),
                        target |-> EmptyDict]
    IN  IF Raised(parsed.err) THEN [err |-> parsed.err, list |-> <<>>]
        ELSE LET rest == ExpandTargets_reversed(base, Tail(targets))
             IN  IF Raised(rest.err) THEN rest
                 ELSE [err |-> NoError,
                       list |-> rest.list \o <<Update(base, parsed.target)>>]

\* The targets list of a spec, JList(entries), holds shorthand strings,
\* JStr(chars), and explicit mappings, JDict(dict).
RECURSIVE ExpandTargets(_, _)
ExpandTargets(base, targets) ==
    IF targets = <<>> THEN [err |-> NoError, list |-> <<>>]
    ELSE
    LET target_entry == Head(targets)
        parsed == IF IsDict(target_entry)
                  THEN IF ~Has(target_entry.dict, "state") \/ ~Has(target_entry.dict, "transition")
                       THEN [err |-> KeyError("Each target must include state and transition"),
                             target |-> EmptyDict]
                       ELSE [err |-> NoError, target |-> target_entry.dict]
                  ELSE IF Has(target_entry, "str")
                  THEN _parse_target_shorthand(target_entry.str)
                  ELSE [err |-> ValueError("Each target must be an object or shorthand string"),
                        target |-> EmptyDict]
    IN  IF Raised(parsed.err) THEN [err |-> parsed.err, list |-> <<>>]
        ELSE LET rest == ExpandTargets(base, Tail(targets))
             IN  IF Raised(rest.err) THEN rest
                 ELSE [err |-> NoError,
                       list |-> <<Update(base, parsed.target)>> \o rest.list]

\* _expand_override_targets that lets the parsed target overwrite an
\* outer state or transition instead of refusing the spec.
_expand_override_targets_merges_outer(override) ==
    IF Has(override, "targets") /\ Has(override, "target")
    THEN [err |-> ValueError("Override cannot include both target and targets"),
          list |-> <<>>]
    ELSE IF ~Has(override, "targets") /\ ~Has(override, "target")
    THEN [err |-> NoError, list |-> <<override>>]
    ELSE
    LET base == [k \in (DOMAIN override) \ {"targets", "target"} |-> override[k]]
    IN  IF Has(override, "target")
        THEN LET parsed == _parse_target_shorthand(override["target"])
             IN  IF Raised(parsed.err) THEN [err |-> parsed.err, list |-> <<>>]
                 ELSE [err |-> NoError, list |-> <<Update(base, parsed.target)>>]
        ELSE IF ~IsList(override["targets"]) \/ override["targets"].list = <<>>
        THEN [err |-> ValueError("Override.targets must be a non-empty list"),
              list |-> <<>>]
        ELSE ExpandTargets(base, override["targets"].list)

_expand_override_targets(override) ==
    IF Has(override, "targets") /\ Has(override, "target")
    THEN [err |-> ValueError("Override cannot include both target and targets"),
          list |-> <<>>]
    ELSE IF ~Has(override, "targets") /\ ~Has(override, "target")
    THEN [err |-> NoError, list |-> <<override>>]
    ELSE IF Has(override, "state") \/ Has(override, "transition")
    THEN [err |-> ValueError("Override with targets must not include state/transition"),
          list |-> <<>>]
    ELSE
    LET base == [k \in (DOMAIN override) \ {"targets", "target"} |-> override[k]]
    IN  IF Has(override, "target")
        THEN LET parsed == _parse_target_shorthand(override["target"])
             IN  IF Raised(parsed.err) THEN [err |-> parsed.err, list |-> <<>>]
                 ELSE [err |-> NoError, list |-> <<Update(base, parsed.target)>>]
        ELSE IF ~IsList(override["targets"]) \/ override["targets"].list = <<>>
        THEN [err |-> ValueError("Override.targets must be a non-empty list"),
              list |-> <<>>]
        ELSE ExpandTargets(base, override["targets"].list)

\* ---------------------------------------------------- override applier
\* The first of the keys the function subscripts that the override lacks.
MissingKey(override) ==
    IF ~Has(override, "state") THEN "state"
    ELSE IF ~Has(override, "transition") THEN "transition"
    ELSE IF ~Has(override, "start_date") THEN "start_date"
    ELSE IF ~Has(override, "dial") THEN "dial"
    ELSE "none"

\* _apply_dial_override with convert_cohort defaulting to False.
_apply_dial_override_no_convert(d, override) ==
    IF MissingKey(override) # "none"
    THEN [data |-> d, err |-> [type |-> "KeyError", msg |-> MissingKey(override)]]
    ELSE
    LET t == _target_for_shock(d, override["state"], override["transition"],
                               Get(override, "detail", None))
    IN  IF Raised(t.err) THEN [data |-> d, err |-> t.err]
        ELSE
        LET target == NodeAt(d, t.path)
            cohort == Get(override, "cohort", None)
            r == IF _is_identity_dial(override["dial"])
                 THEN _remove_shock(target, cohort)
                 ELSE IF cohort # None
                 THEN _upsert_cohort_shock(target, cohort, override["start_date"],
                                           override["dial"],
                                           Get(override, "add_cohort", FALSE),
                                           Get(override, "convert_cohort", FALSE))
                 ELSE _upsert_simple_shock(target, override["start_date"], override["dial"])
        IN  [data |-> SetNodeAt(d, t.path, r.node), err |-> r.err]

\* _apply_dial_override that creates a missing detail entry of a grouped
\* transition instead of failing.
_apply_dial_override_creates_detail(d, override) ==
    LET state == override["state"]
        transition == override["transition"]
        detail == Get(override, "detail", None)
        t == _target_for_shock(d, state, transition, detail)
    IN  IF ~Raised(t.err)
        THEN LET target == NodeAt(d, t.path)
                 cohort == Get(override, "cohort", None)
                 r == IF _is_identity_dial(override["dial"])
                      THEN _remove_shock(target, cohort)
                      ELSE IF cohort # None
                      THEN _upsert_cohort_shock(target, cohort, override["start_date"],
                                                override["dial"],
                                                Get(override, "add_cohort", FALSE),
                                                Get(override, "convert_cohort", TRUE))
                      ELSE _upsert_simple_shock(target, override["start_date"],
                                                override["dial"])
             IN  [data |-> SetNodeAt(d, t.path, r.node), err |-> r.err]
        ELSE IF /\ t.err.msg = "Missing detail path"
                /\ Has(d["State"][state]["Transitions"][transition], "Detail")
                /\ IsDict(d["State"][state]["Transitions"][transition]["Detail"])
        THEN [data |-> [d EXCEPT !["State"][state]["Transitions"][transition]["Detail"] =
                           JDict(Put(@.dict, detail, EmptyDict))],
              err |-> NoError]
        ELSE [data |-> d, err |-> t.err]

\* One atomic override on document d: the document as the call leaves it
\* and the exception it raised.
_apply_dial_override(d, override) ==
    IF MissingKey(override) # "none"
    THEN [data |-> d, err |-> [type |-> "KeyError", msg |-> MissingKey(override)]]
    ELSE
    LET state == override["state"]
        transition == override["transition"]
        detail == Get(override, "detail", None)
        start_date == override["start_date"]
        dial_value == override["dial"]
        t == _target_for_shock(d, state, transition, detail)
    IN  IF Raised(t.err) THEN [data |-> d, err |-> t.err]
        ELSE
        LET target == NodeAt(d, t.path)
            cohort == Get(override, "cohort", None)
            r == IF _is_identity_dial(dial_value)
                 THEN _remove_shock(target, cohort)
                 ELSE IF cohort # None
                 THEN _upsert_cohort_shock(target, cohort, start_date, dial_value,
                                           Get(override, "add_cohort", FALSE),
                                           Get(override, "convert_cohort", TRUE))
                 ELSE _upsert_simple_shock(target, start_date, dial_value)
        IN  [data |-> SetNodeAt(d, t.path, r.node), err |-> r.err]

\* The inner loop: the expanded overrides of one spec, in order, up to
\* the first that raises.
RECURSIVE ApplyExpanded(_, _)
ApplyExpanded(d, expanded) ==
    IF expanded = <<>> THEN [data |-> d, err |-> NoError]
    ELSE LET r == _apply_dial_override(d, Head(expanded))
         IN  IF Raised(r.err) THEN r ELSE ApplyExpanded(r.data, Tail(expanded))

\* The skip test that looks at disabled only.
IsDisabled_ignores_enabled(override) ==
    Has(override, "disabled") /\ override["disabled"] = TRUE

IsDisabled(override) ==
    \/ (Has(override, "disabled") /\ override["disabled"] = TRUE)
    \/ (Has(override, "enabled") /\ override["enabled"] = FALSE)

SamePath(a, b) ==
    /\ Get(a, "state", None) = Get(b, "state", None)
    /\ Get(a, "transition", None) = Get(b, "transition", None)
    /\ Get(a, "detail", None) = Get(b, "detail", None)

\* apply_dial_overrides with the overrides deduplicated by path, the first
\* override of a path kept and the later ones dropped.
RECURSIVE apply_dial_overrides_dedup(_, _)
apply_dial_overrides_dedup(d, overrides) ==
    IF overrides = <<>> THEN [data |-> d, err |-> NoError]
    ELSE
    LET override == Head(overrides)
        rest == SelectSeq(Tail(overrides), LAMBDA x : ~SamePath(x, override))
    IN  IF IsDisabled(override) THEN apply_dial_overrides_dedup(d, Tail(overrides))
        ELSE
        LET e == _expand_override_targets(override)
        IN  IF Raised(e.err) THEN [data |-> d, err |-> e.err]
            ELSE LET r == ApplyExpanded(d, e.list)
                 IN  IF Raised(r.err) THEN r
                     ELSE apply_dial_overrides_dedup(r.data, rest)

\* apply_dial_overrides that hands back the document it was given when
\* an override raises.
RECURSIVE apply_dial_overrides_rolls_back(_, _)
apply_dial_overrides_rolls_back(d, overrides) ==
    IF overrides = <<>> THEN [data |-> d, err |-> NoError]
    ELSE
    LET override == Head(overrides)
    IN  IF IsDisabled(override) THEN apply_dial_overrides_rolls_back(d, Tail(overrides))
        ELSE
        LET e == _expand_override_targets(override)
        IN  IF Raised(e.err) THEN [data |-> d, err |-> e.err]
            ELSE LET r == ApplyExpanded(d, e.list)
                 IN  IF Raised(r.err) THEN [data |-> d, err |-> r.err]
                     ELSE LET rest == apply_dial_overrides_rolls_back(r.data, Tail(overrides))
                          IN  IF Raised(rest.err) THEN [data |-> d, err |-> rest.err]
                              ELSE rest

RECURSIVE apply_dial_overrides(_, _)
apply_dial_overrides(d, overrides) ==
    IF overrides = <<>> THEN [data |-> d, err |-> NoError]
    ELSE
    LET override == Head(overrides)
    IN  IF IsDisabled(override) THEN apply_dial_overrides(d, Tail(overrides))
        ELSE
        LET e == _expand_override_targets(override)
        IN  IF Raised(e.err) THEN [data |-> d, err |-> e.err]
            ELSE LET r == ApplyExpanded(d, e.list)
                 IN  IF Raised(r.err) THEN r
                     ELSE apply_dial_overrides(r.data, Tail(overrides))

\* ------------------------------------------------- documents at start
StateS == <<"S">>
LeafT == <<"T">>
GroupG == <<"G">>
DetailD == <<"D">>
CohortA == <<"A">>
CohortB == <<"B">>
Date1 == "20240101"
Date2 == "20250101"
\* Dial values in units of 1e-4: 1.05, 0.9, and two that round to 1.0
\* (1.0004 and 1.0).
DialValue(whole, tenThousandths) == whole * 10000 + tenThousandths
Dial105 == DialValue(1, 500)
Dial090 == DialValue(0, 9000)
DialNear1 == DialValue(1, 4)
Dial1 == DialValue(1, 0)
Version0 == <<"v", "1", ".", "8", ".", "0">>

Entry(cohort, start_date, dial_value) ==
    [Cohort |-> cohort, StartDate |-> start_date, Detail |-> dial(dial_value)]

SimpleShock(start_date, dial_value) ==
    [StartDate |-> start_date, Detail |-> dial(dial_value)]

CohortShock(entries) == [HasCohort |-> TRUE, Cohorts |-> entries]

\* A leaf transition node: its model detail tag, a Version and, when
\* shock is a one-element sequence, that Shock.
Leaf(tag, shock) ==
    LET node == [Detail |-> JStr(tag), Version |-> Version0]
    IN  IF shock = <<>> THEN node ELSE Put(node, "Shock", shock[1])

Document(shockT, shockD) ==
    [Key |-> [Version |-> Version0],
     State |-> [s \in {StateS} |->
        [Transitions |-> [t \in {LeafT, GroupG} |->
            IF t = LeafT THEN Leaf(<<"m">>, shockT)
            ELSE [Detail |-> JDict([x \in {DetailD} |-> Leaf(<<"m">>, shockD)]),
                  Version |-> Version0]]]]]

\* The Shock a loaded document may hold on leaf T: none, a simple one,
\* cohort lists (empty, one entry, two names, one name twice), and the
\* two half-formed cohort shapes the engine normalises.
ShocksT ==
    { <<>>,
      <<SimpleShock(Date1, Dial105)>>,
      <<CohortShock(<<>>)>>,
      <<CohortShock(<<Entry(CohortA, Date1, Dial105)>>)>>,
      <<CohortShock(<<Entry(CohortA, Date1, Dial105), Entry(CohortB, Date1, Dial090)>>)>>,
      <<CohortShock(<<Entry(CohortA, Date1, Dial105), Entry(CohortA, Date2, Dial090)>>)>>,
      <<[HasCohort |-> TRUE]>>,
      <<[Cohorts |-> <<Entry(CohortA, Date1, Dial105)>>]>> }

ShocksD ==
    { <<>>,
      <<CohortShock(<<Entry(CohortB, Date2, Dial090)>>)>> }

\* ------------------------------------------------------ the inputs
Flag(key, f) == IF f = "absent" THEN EmptyDict ELSE [k \in {key} |-> f = "true"]
Opt(key, v) == IF v = None THEN EmptyDict ELSE [k \in {key} |-> v]

Override(state, transition, detail, cohort, start_date, dial_value, add, convert) ==
    Update(Update(Update(Update(
        [state |-> state, transition |-> transition,
         start_date |-> start_date, dial |-> dial_value],
        Opt("detail", detail)), Opt("cohort", cohort)),
        Flag("add_cohort", add)), Flag("convert_cohort", convert))

Flags == {"absent", "true", "false"}

\* Non-identity cohort overrides on leaf T under every setting of the
\* two flags, and on the detail leaf with the flags left out or add set.
CohortOverrides ==
    { Override(StateS, LeafT, None, c, p[1], p[2], a, cv) :
        c \in {CohortA, CohortB},
        p \in {<<Date1, Dial105>>, <<Date2, Dial090>>},
        a \in Flags, cv \in Flags }
    \cup { Override(StateS, GroupG, DetailD, c, Date1, Dial105, a, "absent") :
        c \in {CohortA, CohortB}, a \in {"absent", "true"} }

\* Simple overrides on the two leaves; the flags mean nothing to them.
SimpleOverrides ==
    { Override(StateS, LeafT, None, None, p[1], p[2], f, f) :
        p \in {<<Date1, Dial105>>, <<Date2, Dial090>>},
        f \in Flags }
    \cup { Override(StateS, GroupG, DetailD, None, p[1], p[2], "absent", "absent") :
        p \in {<<Date1, Dial105>>, <<Date2, Dial090>>} }

\* Identity dials (1.0004 and 1.0), with and without a cohort.
IdentityOverrides ==
    { Override(StateS, tg[1], tg[2], c, Date2, DialNear1, "absent", "absent") :
        tg \in {<<LeafT, None>>, <<GroupG, DetailD>>},
        c \in {None, CohortA, CohortB} }
    \cup { Override(StateS, LeafT, None, None, Date2, Dial1, "absent", "absent") }

\* Overrides that name the grouped transition itself, without a detail.
GroupOverrides ==
    { Override(StateS, GroupG, None, None, Date1, Dial105, "absent", "absent"),
      Override(StateS, GroupG, None, CohortA, Date1, Dial105, "true", "absent"),
      Override(StateS, GroupG, None, None, Date1, DialNear1, "absent", "absent") }

\* Paths with a missing state, transition or detail (a detail asked of a
\* leaf included).
MissingTargets ==
    { <<<<"X">>, LeafT, None>>, <<StateS, <<"U">>, None>>, <<<<"X">>, <<"U">>, DetailD>>,
      <<StateS, LeafT, DetailD>>, <<StateS, GroupG, <<"E">>>> }

MissingOverrides ==
    { Override(tg[1], tg[2], tg[3], None, Date1, Dial105, "absent", "absent") :
        tg \in MissingTargets }
    \cup { Override(tg[1], tg[2], tg[3], CohortA, Date1, DialNear1, "absent", "absent") :
        tg \in MissingTargets }

AtomicOverrides ==
    CohortOverrides \cup SimpleOverrides \cup IdentityOverrides
        \cup GroupOverrides \cup MissingOverrides

\* The specs override lists are made of: two simple overrides and a
\* cohort override on leaf T, an identity dial, and one whose path is
\* missing.
BatchSpecs ==
    { Override(StateS, LeafT, None, None, Date1, Dial105, "absent", "absent"),
      Override(StateS, LeafT, None, None, Date2, Dial090, "absent", "absent"),
      Override(StateS, LeafT, None, CohortB, Date2, Dial090, "true", "absent"),
      Override(StateS, LeafT, None, None, Date1, DialNear1, "absent", "absent"),
      Override(StateS, <<"U">>, None, None, Date1, Dial105, "absent", "absent") }

RECURSIVE SeqsOfLen(_, _)
SeqsOfLen(S, n) ==
    IF n = 0 THEN {<<>>}
    ELSE {<<x>> \o t : x \in S, t \in SeqsOfLen(S, n - 1)}

Batches ==
    {<<o>> : o \in AtomicOverrides}
        \cup UNION {SeqsOfLen(BatchSpecs, n) : n \in 2..MaxBatch}

\* --------------------------------------------------- the state machine
WhollySimple(shock) == DOMAIN shock = {"StartDate", "Detail"}
WhollyCohort(shock) == DOMAIN shock = {"HasCohort", "Cohorts"} /\ shock["HasCohort"] = TRUE

\* Every node of the document that can hold a Shock: the transition
\* nodes and the entries of their detail maps.
Nodes(d) ==
    UNION { UNION { {d["State"][s]["Transitions"][t]}
                    \cup ( IF /\ Has(d["State"][s]["Transitions"][t], "Detail")
                              /\ IsDict(d["State"][s]["Transitions"][t]["Detail"])
                           THEN LET m == d["State"][s]["Transitions"][t]["Detail"].dict
                                IN  {m[x] : x \in DOMAIN m}
                           ELSE {} )
                    : t \in DOMAIN d["State"][s]["Transitions"] }
            : s \in DOMAIN d["State"] }

ShapesOK(d) ==
    \A n \in Nodes(d) :
        Has(n, "Shock") => (WhollySimple(n["Shock"]) \/ WhollyCohort(n["Shock"]))

Init ==
    /\ data \in {Document(a, b) : a \in ShocksT, b \in ShocksD}
    /\ pre = data
    /\ last = <<>>
    /\ err = NoError
    /\ pc = "idle"
    /\ wellStart = ShapesOK(data)
    /\ out = <<>>
    /\ file = <<>>

\* One call apply_dial_overrides(data, overrides), to its return or to
\* the exception that ends it; the document keeps what the call did.
Outcome(r) ==
    /\ data' = r.data
    /\ err' = r.err

Apply(overrides) ==
    /\ pc = "idle"
    /\ Outcome(apply_dial_overrides(data, overrides))
    /\ pre' = data
    /\ last' = overrides
    /\ pc' = "returned"
    /\ UNCHANGED <<wellStart, out, file>>

\* The caller goes on with the document as the call left it (an
\* exception caught, as a caller that skips a failed batch does); the
\* ended call's arguments and outcome are gone.
Proceed ==
    /\ pc = "returned"
    /\ pc' = "idle"
    /\ pre' = data
    /\ last' = <<>>
    /\ err' = NoError
    /\ UNCHANGED <<data, wellStart, out, file>>

Next ==
    \/ \E overrides \in Batches : Apply(overrides)
    \/ Proceed

Spec == Init /\ [][Next]_vars

\* ==================================================== the properties
\* What the properties read of the last call.
Returned == pc = "returned"
\* The last call was given one atomic override.
Single == Returned /\ Len(last) = 1
TheOverride == last[1]
NonIdentity(o) == Round3(o["dial"]) # 1000
HasCohortName(o) == Has(o, "cohort")

\* The path an atomic override names, and whether document d has it.
PathOf(o) == <<o["state"], o["transition"], Get(o, "detail", None)>>
HasTransition(d, o) ==
    /\ o["state"] \in DOMAIN d["State"]
    /\ o["transition"] \in DOMAIN d["State"][o["state"]]["Transitions"]
HasTarget(d, o) ==
    /\ HasTransition(d, o)
    /\ Has(o, "detail") =>
         LET root == d["State"][o["state"]]["Transitions"][o["transition"]]
         IN  /\ Has(root, "Detail")
             /\ Has(root["Detail"], "dict")
             /\ o["detail"] \in DOMAIN root["Detail"].dict

\* The transition node the last override names, before the call.
PreNode2 == pre["State"][TheOverride["state"]]["Transitions"][TheOverride["transition"]]
\* The node the last override names, before and after the call.
PreNode == NodeAt(pre, PathOf(TheOverride))
PostNode == NodeAt(data, PathOf(TheOverride))
IsCohortShaped(shock) ==
    Has(shock, "Cohorts") \/ (Has(shock, "HasCohort") /\ shock["HasCohort"] = TRUE)
PreSimple == Has(PreNode, "Shock") /\ ~IsCohortShaped(PreNode["Shock"])
PreCohort == Has(PreNode, "Shock") /\ IsCohortShaped(PreNode["Shock"])
NamesOf(cohorts) == {Get(cohorts[i], "Cohort", None) : i \in 1..Len(cohorts)}
\* The entry a cohort override writes.
EntryOf(o) ==
    [Cohort |-> o["cohort"], StartDate |-> o["start_date"], Detail |-> dial(o["dial"])]

\* --- C1
\* The overrides of a list handed over one call at a time, each call
\* given a one-element list, up to the first call that raises.
RECURSIVE OneAtATime(_, _)
OneAtATime(d, overrides) ==
    IF overrides = <<>> THEN [data |-> d, err |-> NoError]
    ELSE LET r == apply_dial_overrides(d, <<Head(overrides)>>)
         IN  IF Raised(r.err) THEN r ELSE OneAtATime(r.data, Tail(overrides))

\* Two non-identity simple overrides of one list name the same leaf.
TwoSimpleSameLeaf ==
    /\ Returned
    /\ Len(last) >= 2
    /\ \A i \in 1..Len(last) :
         /\ ~HasCohortName(last[i])
         /\ NonIdentity(last[i])
         /\ PathOf(last[i]) = PathOf(last[1])
         /\ HasTarget(pre, last[i])

\* C1: apply_dial_overrides handles the specs strictly in list order and
\* drops none of them: the document (and the outcome) after
\* apply(doc, [o1..on]) is that of applying o1, then o2, ... one call at a
\* time, up to the first call that raises; and when the call returns after
\* non-identity simple overrides that all name the same leaf, that leaf's
\* Shock carries the start date and dial of the last of them.
C1_ListOrder ==
    Returned =>
        /\ data = OneAtATime(pre, last).data
        /\ err = OneAtATime(pre, last).err
        /\ (TwoSimpleSameLeaf /\ ~Raised(err)) =>
              LET o == last[Len(last)]
              IN  NodeAt(data, PathOf(o))["Shock"]
                    = [StartDate |-> o["start_date"], Detail |-> dial(o["dial"])]

\* Two simple overrides with different start dates and dials were applied
\* to the same leaf in one call.
C1_Witness ==
    /\ TwoSimpleSameLeaf
    /\ ~Raised(err)
    /\ Len(last) = 2
    /\ last[1]["start_date"] # last[2]["start_date"]
    /\ last[1]["dial"] # last[2]["dial"]

\* --- C2
\* The last override names a cohort, is no identity dial, does not set
\* add_cohort, and the node it names holds a cohort list without that name.
C2_Case ==
    /\ Single
    /\ NonIdentity(TheOverride)
    /\ HasCohortName(TheOverride)
    /\ ~Has(TheOverride, "add_cohort")
    /\ HasTarget(pre, TheOverride)
    /\ Has(PreNode, "Shock")
    /\ Has(PreNode["Shock"], "Cohorts")
    /\ TheOverride["cohort"] \notin NamesOf(PreNode["Shock"]["Cohorts"])

\* C2: a non-identity override that names a cohort missing from the
\* leaf's cohort list and does not set add_cohort fails with the
\* missing-cohort error and creates no cohort entry.
C2_CohortGuard ==
    C2_Case =>
        /\ err = KeyError("Missing cohort")
        /\ PostNode["Shock"]["Cohorts"] = PreNode["Shock"]["Cohorts"]

\* --- C3
C3_Case ==
    /\ Single
    /\ ~HasCohortName(TheOverride)
    /\ HasTarget(pre, TheOverride)
    /\ PreCohort

\* C3 as stated: an override without a cohort, applied to a leaf whose
\* Shock is cohort-shaped, always fails and leaves the cohort Shock alone.
C3_AlwaysFails ==
    C3_Case => (Raised(err) /\ data = pre)

\* C3, amended: a non-identity override without a cohort, applied to a
\* leaf whose Shock is cohort-shaped, fails with the refusal to overwrite
\* a cohort shock whatever add_cohort and convert_cohort say, and the
\* document is unchanged; an identity-dial override without a cohort does
\* not fail: it removes the whole cohort Shock.
C3_ShapeGuard ==
    C3_Case =>
        IF NonIdentity(TheOverride)
        THEN /\ err = ValueError("Refusing to overwrite cohort shock")
             /\ data = pre
        ELSE /\ ~Raised(err)
             /\ ~Has(PostNode, "Shock")

\* A simple override with both flags set true was refused on a cohort
\* shock.
C3_Witness ==
    /\ C3_Case
    /\ NonIdentity(TheOverride)
    /\ Has(TheOverride, "add_cohort") /\ TheOverride["add_cohort"] = TRUE
    /\ Has(TheOverride, "convert_cohort") /\ TheOverride["convert_cohort"] = TRUE
    /\ Raised(err)

\* --- C4
C4_Case ==
    /\ Single
    /\ ~NonIdentity(TheOverride)
    /\ HasTarget(pre, TheOverride)

\* The entries of a cohort list whose Cohort is not name, in order.
Others(cohorts, name) ==
    SelectSeq(cohorts, LAMBDA e : Get(e, "Cohort", None) # name)
CohortsOf(shock) == IF Has(shock, "Cohorts") THEN shock["Cohorts"] ELSE <<>>

\* C4 as stated: an identity dial never creates or updates a shock; on a
\* non-cohort Shock it removes the Shock key; on a cohort-shaped Shock,
\* with a cohort given, it removes exactly the entries of that name and
\* deletes the Shock key iff no entry remains.
C4_IffNoEntryRemains ==
    C4_Case =>
        /\ ~Raised(err)
        /\ ~Has(PreNode, "Shock") => data = pre
        /\ PreSimple => PostNode = Del(PreNode, "Shock")
        /\ (PreCohort /\ HasCohortName(TheOverride)) =>
              LET rem == Others(CohortsOf(PreNode["Shock"]), TheOverride["cohort"])
              IN  IF rem = <<>>
                  THEN ~Has(PostNode, "Shock")
                  ELSE /\ Has(PostNode, "Shock")
                       /\ PostNode["Shock"]["Cohorts"] = rem

\* C4, amended: as stated, except that the Shock key is deleted iff at
\* least one entry was removed and none remains: a cohort-shaped Shock
\* none of whose entries has the name (its list empty or missing
\* included) is left exactly as it was.  Nothing but the named node
\* changes.
C4_IdentityRemoval ==
    C4_Case =>
        /\ ~Raised(err)
        /\ ~Has(PreNode, "Shock") => data = pre
        /\ PreSimple => data = SetNodeAt(pre, PathOf(TheOverride), Del(PreNode, "Shock"))
        /\ (PreCohort /\ HasCohortName(TheOverride)) =>
              LET cohorts == CohortsOf(PreNode["Shock"])
                  rem == Others(cohorts, TheOverride["cohort"])
              IN  IF Len(rem) = Len(cohorts) THEN data = pre
                  ELSE IF rem = <<>>
                  THEN data = SetNodeAt(pre, PathOf(TheOverride), Del(PreNode, "Shock"))
                  ELSE data = SetNodeAt(pre, PathOf(TheOverride),
                                        [PreNode EXCEPT !["Shock"]["Cohorts"] = rem])

\* An identity dial with a cohort removed some entries of a cohort list
\* and kept others.
C4_Witness ==
    /\ C4_Case
    /\ PreCohort
    /\ HasCohortName(TheOverride)
    /\ Has(PostNode, "Shock")
    /\ Has(PreNode["Shock"], "Cohorts")
    /\ Has(PostNode["Shock"], "Cohorts")
    /\ Len(PostNode["Shock"]["Cohorts"]) >= 1
    /\ Len(PostNode["Shock"]["Cohorts"]) < Len(PreNode["Shock"]["Cohorts"])

\* --- C5
\* C5: from a document in which every Shock is wholly simple
\* ({StartDate, Detail}) or wholly cohort-shaped ({HasCohort: true,
\* Cohorts}), every Shock of the document stays wholly simple or wholly
\* cohort-shaped after any sequence of calls, failed ones included.
C5_ShapeInvariant == wellStart => ShapesOK(data)

\* A cohort override turned a simple Shock into a cohort Shock, in a run
\* that began with a well-shaped document.
C5_Witness ==
    /\ wellStart
    /\ Single
    /\ HasTarget(pre, TheOverride)
    /\ PreSimple
    /\ Has(PostNode, "Shock")
    /\ Has(PostNode["Shock"], "Cohorts")

\* --- C6
C6_Case ==
    /\ Single
    /\ NonIdentity(TheOverride)
    /\ HasCohortName(TheOverride)
    /\ Has(TheOverride, "convert_cohort")
    /\ TheOverride["convert_cohort"] = FALSE
    /\ HasTarget(pre, TheOverride)
    /\ PreSimple

\* C6: a non-identity cohort override with convert_cohort false, applied
\* to a leaf holding a simple Shock, fails with the refusal to overwrite a
\* non-cohort shock whatever add_cohort says, and the document (the simple
\* Shock's StartDate and Detail included) is unchanged.
C6_ConversionRefused ==
    C6_Case =>
        /\ err = ValueError("Refusing to overwrite non-cohort shock")
        /\ data = pre
        /\ PostNode["Shock"] = PreNode["Shock"]

\* A conversion was refused although add_cohort was true.
C6_Witness ==
    /\ C6_Case
    /\ Has(TheOverride, "add_cohort")
    /\ TheOverride["add_cohort"] = TRUE
    /\ Raised(err)

\* --- C7
C7_Case ==
    /\ Single
    /\ NonIdentity(TheOverride)
    /\ HasCohortName(TheOverride)
    /\ ~Has(TheOverride, "convert_cohort")
    /\ HasTarget(pre, TheOverride)
    /\ PreSimple

\* C7: a non-identity cohort override that leaves convert_cohort out,
\* applied to a leaf holding a simple Shock, succeeds and converts it: the
\* Shock is then {HasCohort: true, Cohorts: [entry]} with no StartDate or
\* Detail of its own, the one entry carrying the override's cohort, start
\* date and dial schedule; nothing else in the document changes.
C7_DefaultConverts ==
    C7_Case =>
        /\ ~Raised(err)
        /\ PostNode["Shock"] = [HasCohort |-> TRUE, Cohorts |-> <<EntryOf(TheOverride)>>]
        /\ data = SetNodeAt(pre, PathOf(TheOverride),
                            Put(PreNode, "Shock", PostNode["Shock"]))

\* A simple Shock was converted by an override that sets neither flag and
\* whose start date differs from the simple Shock's.
C7_Witness ==
    /\ C7_Case
    /\ ~Has(TheOverride, "add_cohort")
    /\ TheOverride["start_date"] # PreNode["Shock"]["StartDate"]
    /\ Has(PostNode["Shock"], "Cohorts")

\* --- C8
C8_Case ==
    /\ Single
    /\ NonIdentity(TheOverride)
    /\ HasCohortName(TheOverride)
    /\ Has(TheOverride, "add_cohort")
    /\ TheOverride["add_cohort"] = TRUE
    /\ HasTarget(pre, TheOverride)
    /\ Has(PreNode, "Shock")
    /\ Has(PreNode["Shock"], "Cohorts")
    /\ TheOverride["cohort"] \notin NamesOf(PreNode["Shock"]["Cohorts"])

\* C8: a non-identity cohort override with add_cohort true whose name
\* matches no entry of the leaf's cohort list appends exactly one entry
\* (that name, the override's start date and dial schedule) at the end of
\* the list and leaves the entries that were there unchanged.
C8_AddAppendsOne ==
    C8_Case =>
        /\ ~Raised(err)
        /\ PostNode["Shock"]["Cohorts"]
             = Append(PreNode["Shock"]["Cohorts"], EntryOf(TheOverride))

\* An entry was appended to a list that already held one.
C8_Witness ==
    /\ C8_Case
    /\ Len(PreNode["Shock"]["Cohorts"]) >= 1
    /\ Len(PostNode["Shock"]["Cohorts"]) = Len(PreNode["Shock"]["Cohorts"]) + 1

\* --- C9
\* The first segment of the path the document lacks.
MissingSegment(d, o) ==
    IF o["state"] \notin DOMAIN d["State"] THEN "state"
    ELSE IF o["transition"] \notin DOMAIN d["State"][o["state"]]["Transitions"]
    THEN "transition"
    ELSE IF ~HasTarget(d, o) THEN "detail"
    ELSE "none"

\* The segment an error's message speaks of.
SegmentNamed(e) ==
    IF e.type # "KeyError" THEN "none"
    ELSE IF e.msg = "Missing transition path" THEN "transition"
    ELSE IF e.msg = "Missing detail path" THEN "detail"
    ELSE "none"

C9_Case == Single /\ MissingSegment(pre, TheOverride) # "none"

\* C9 as stated: an override whose state, transition or detail is missing
\* fails with a path-not-found error that tells which of the three
\* segments is missing, and the document is unchanged.
C9_ExactSegment ==
    C9_Case =>
        /\ SegmentNamed(err) = MissingSegment(pre, TheOverride)
        /\ data = pre

\* C9, amended: such an override fails with a KeyError and the document
\* is unchanged; the error tells a missing transition path (the state or
\* the transition is missing: the message gives both names and does not
\* say which) from a missing detail (the message gives state, transition
\* and detail).
C9_PathNotFound ==
    C9_Case =>
        /\ data = pre
        /\ IF MissingSegment(pre, TheOverride) \in {"state", "transition"}
           THEN err = [type |-> "KeyError", msg |-> "Missing transition path",
                       state |-> TheOverride["state"],
                       transition |-> TheOverride["transition"]]
           ELSE err = [type |-> "KeyError", msg |-> "Missing detail path",
                       state |-> TheOverride["state"],
                       transition |-> TheOverride["transition"],
                       detail |-> TheOverride["detail"]]

\* An override failed on a detail missing from a grouped transition.
C9_Witness ==
    /\ C9_Case
    /\ MissingSegment(pre, TheOverride) = "detail"
    /\ Has(PreNode2, "Detail")
    /\ Raised(err)

\* --- C10
\* A node without its Shock, and a document without any Shock.
StripLeaf(n) == IF Has(n, "Shock") THEN Del(n, "Shock") ELSE n
StripNode(n) ==
    LET m == StripLeaf(n)
    IN  IF Has(m, "Detail") /\ IsDict(m["Detail"])
        THEN [m EXCEPT !["Detail"] =
                 JDict([x \in DOMAIN m["Detail"].dict |-> StripLeaf(m["Detail"].dict[x])])]
        ELSE m
StripShocks(d) ==
    [d EXCEPT !["State"] =
        [s \in DOMAIN d["State"] |->
            [d["State"][s] EXCEPT !["Transitions"] =
                [t \in DOMAIN d["State"][s]["Transitions"] |->
                    StripNode(d["State"][s]["Transitions"][t])]]]]

\* C10: over any sequence of calls the document without its Shock keys
\* stays what it was at the start (no state, transition or detail entry
\* is created, removed or renamed, no other field changes), and a call
\* given one atomic override changes nothing outside the node the override
\* names.
C10_Frame ==
    /\ StripShocks(data) = Document(<<>>, <<>>)
    /\ Single =>
         IF HasTarget(pre, TheOverride)
         THEN data = SetNodeAt(pre, PathOf(TheOverride), PostNode)
         ELSE data = pre

\* A call changed a Shock on the detail leaf of the grouped transition.
C10_Witness ==
    /\ Single
    /\ HasTarget(pre, TheOverride)
    /\ Has(TheOverride, "detail")
    /\ PostNode # PreNode

\* ============================================== the spec generator
\* A dict iterates in insertion order, which for a loaded document is the
\* order of the file; the files of the model list their names in this
\* order.
NameOrder == <<StateS, LeafT, <<"T", "@", "1">>, GroupG, DetailD, <<"E">>, <<"U">>, <<"X">>>>
Keys(d) == SelectSeq(NameOrder, LAMBDA k : k \in DOMAIN d)

RECURSIVE Concat(_)
\* The lists of a list of lists, one after the other.
Concat(lists) ==
    IF lists = <<>> THEN <<>> ELSE Head(lists) \o Concat(Tail(lists))

\* What _iter_transition_targets yields for one transition: the entries
\* of its detail map when Detail is a dict, else the transition itself.
TransitionTargets(state_name, transition_name, transition) ==
    IF Has(transition, "Detail") /\ IsDict(transition["Detail"])
    THEN LET detail == transition["Detail"].dict
             names == Keys(detail)
         IN  [i \in 1..Len(names) |->
                 [state |-> state_name, transition |-> transition_name,
                  detail |-> names[i], target |-> detail[names[i]]]]
    ELSE <<[state |-> state_name, transition |-> transition_name,
            detail |-> None, target |-> transition]>>

StateTargets(state_name, state) ==
    IF ~Has(state, "Transitions") THEN <<>>
    ELSE LET names == Keys(state["Transitions"])
         IN  Concat([i \in 1..Len(names) |->
                 TransitionTargets(state_name, names[i], state["Transitions"][names[i]])])

\* The (state, transition, detail, target) tuples in document order.
_iter_transition_targets(d) ==
    IF ~Has(d, "State") THEN <<>>
    ELSE LET names == Keys(d["State"])
         IN  Concat([i \in 1..Len(names) |-> StateTargets(names[i], d["State"][names[i]])])

\* The model detail tag of a target: its Detail when that is a string.
HasModelDetail(target) == Has(target, "Detail") /\ Has(target["Detail"], "str")
_extract_model_detail(target) == target["Detail"].str

\* float("<int>.<frac>") in units of 1e-4.
RECURSIVE DigitsValue(_, _)
DigitsValue(digits, weight) ==
    IF digits = <<>> THEN 0
    ELSE Head(digits) * weight + DigitsValue(Tail(digits), weight \div 10)
FloatOf(num) == num.int * 10000 + DigitsValue(num.frac, 1000)

\* _parse_dial_value that reads the digits before the decimal point only.
_parse_dial_value_integer_part(detail, default) ==
    IF detail = <<>> THEN default
    ELSE IF Has(detail[1], "lit") THEN 10000
    ELSE IF detail[1].num.neg THEN default
    ELSE detail[1].num.int * 10000

\* The multiplier a dial string starts with: the regular expression
\* \s*([0-9]+(?:\.[0-9]+)?)x\b matched at the start of the string, which
\* the first token decides (a minus sign matches nothing, the bare "1x"
\* reads 1.0); default when nothing matches.
_parse_dial_value(detail, default) ==
    IF detail = <<>> THEN default
    ELSE IF Has(detail[1], "lit") THEN 10000
    ELSE IF detail[1].num.neg THEN default
    ELSE FloatOf(detail[1].num)

COHORT_NAME == <<"C", "O", "H", "O", "R", "T", "_", "N", "A", "M", "E">>

\* value.get(key) or default, for a string-valued key.
GetOr(d, k, empty, default) == IF Has(d, k) /\ d[k] # empty THEN d[k] ELSE default

\* detail and _model_detail, set on an override when they are there.
WithDetail(override, detail_name, target, tagged) ==
    Update(Update(override, Opt("detail", detail_name)),
           IF tagged /\ HasModelDetail(target)
           THEN [_model_detail |-> _extract_model_detail(target)]
           ELSE EmptyDict)

\* CohortEntryOverride that keeps the entries whose dial is identity.
CohortEntryOverride_keeps_identity(t, cohort_entry, default_start_date, default_dial) ==
    <<WithDetail([state |-> t.state, transition |-> t.transition,
                  cohort |-> GetOr(cohort_entry, "Cohort", <<>>, COHORT_NAME),
                  start_date |-> GetOr(cohort_entry, "StartDate", "", default_start_date),
                  dial |-> IF Has(cohort_entry, "Detail")
                           THEN _parse_dial_value(cohort_entry["Detail"], default_dial)
                           ELSE default_dial],
                 t.detail, t.target, TRUE)>>

\* The override of one entry of a cohort list, none when its dial is
\* identity.
CohortEntryOverride(t, cohort_entry, default_start_date, default_dial) ==
    LET dial_value == IF Has(cohort_entry, "Detail")
                      THEN _parse_dial_value(cohort_entry["Detail"], default_dial)
                      ELSE default_dial
    IN  IF _is_identity_dial(dial_value) THEN <<>>
        ELSE <<WithDetail([state |-> t.state, transition |-> t.transition,
                           cohort |-> GetOr(cohort_entry, "Cohort", <<>>, COHORT_NAME),
                           start_date |-> GetOr(cohort_entry, "StartDate", "", default_start_date),
                           dial |-> dial_value],
                          t.detail, t.target, TRUE)>>

\* The body of the generator's loop: the overrides one target gives.
TargetOverrides(t, default_start_date, default_dial, only_with_shock) ==
    IF only_with_shock /\ ~Has(t.target, "Shock") THEN <<>>
    ELSE IF Has(t.target, "Shock") /\ _is_cohort_shock(t.target["Shock"])
    THEN LET shock == t.target["Shock"]
         IN  IF ~Has(shock, "Cohorts") \/ Get(shock, "Cohorts", <<>>) = <<>>
             THEN <<WithDetail([state |-> t.state, transition |-> t.transition,
                                cohort |-> COHORT_NAME,
                                start_date |-> default_start_date,
                                dial |-> default_dial],
                               t.detail, t.target, FALSE)>>
             ELSE Concat([i \in 1..Len(shock["Cohorts"]) |->
                     CohortEntryOverride(t, shock["Cohorts"][i],
                                         default_start_date, default_dial)])
    ELSE LET shock == Get(t.target, "Shock", EmptyDict)
             dial_value == IF Has(shock, "Detail")
                           THEN _parse_dial_value(shock["Detail"], default_dial)
                           ELSE default_dial
         IN  IF _is_identity_dial(dial_value) THEN <<>>
             ELSE <<WithDetail([state |-> t.state, transition |-> t.transition,
                                start_date |-> GetOr(shock, "StartDate", "", default_start_date),
                                dial |-> dial_value],
                               t.detail, t.target, TRUE)>>

\* override.pop(key, None)
Pop(d, k) == IF Has(d, k) THEN Del(d, k) ELSE d

\* The key overrides are grouped by.
GroupKey(override) ==
    <<override["_model_detail"], Get(override, "cohort", None),
      override["start_date"], override["dial"]>>

\* The target of one entry of a group: its shorthand, or the explicit
\* mapping.
GroupTarget(entry, compact_targets) ==
    IF compact_targets
    THEN JStr(_format_target_shorthand(entry["state"], entry["transition"],
                                       Get(entry, "detail", None)))
    ELSE JDict(Update([state |-> entry["state"], transition |-> entry["transition"]],
                      Opt("detail", Get(entry, "detail", None))))

\* GroupedOverride that wraps a group of one entry in targets too.
GroupedOverride_wraps_singletons(entries, compact_targets) ==
    Update([model_detail |-> entries[1]["_model_detail"],
            targets |-> JList([i \in 1..Len(entries) |->
                            GroupTarget(entries[i], compact_targets)])],
           [k \in {"cohort", "start_date", "dial"} \cap DOMAIN entries[1] |-> entries[1][k]])

\* What a group of entries becomes: its one entry, or one override with
\* the targets of all of them and the shared fields of the first.
GroupedOverride(entries, compact_targets) ==
    IF Len(entries) = 1 THEN Pop(entries[1], "_model_detail")
    ELSE LET base == entries[1]
             shared == [k \in {"cohort", "start_date", "dial"} \cap DOMAIN base |-> base[k]]
         IN  Update([model_detail |-> base["_model_detail"],
                     targets |-> JList([i \in 1..Len(entries) |->
                                     GroupTarget(entries[i], compact_targets)])],
                    shared)

\* _group_overrides_by_model_detail that keeps of each group its first
\* entry alone.
_group_overrides_by_model_detail_first_only(overrides, compact_targets) ==
    Concat([i \in 1..Len(overrides) |->
        IF ~Has(overrides[i], "_model_detail") THEN <<overrides[i]>>
        ELSE IF \E j \in 1..(i - 1) :
                   /\ Has(overrides[j], "_model_detail")
                   /\ GroupKey(overrides[j]) = GroupKey(overrides[i])
        THEN <<>>
        ELSE <<Pop(overrides[i], "_model_detail")>>])

\* The result holds the untagged overrides where they stood and each
\* group where its first entry stood.
_group_overrides_by_model_detail(overrides, compact_targets) ==
    Concat([i \in 1..Len(overrides) |->
        IF ~Has(overrides[i], "_model_detail") THEN <<overrides[i]>>
        ELSE IF \E j \in 1..(i - 1) :
                   /\ Has(overrides[j], "_model_detail")
                   /\ GroupKey(overrides[j]) = GroupKey(overrides[i])
        THEN <<>>
        ELSE <<GroupedOverride(
                 SelectSeq(overrides, LAMBDA o :
                     Has(o, "_model_detail") /\ GroupKey(o) = GroupKey(overrides[i])),
                 compact_targets)>>])

\* One override of _compact_single_target_overrides: state, transition
\* and detail give way to the target shorthand.
CompactOverride(override) ==
    IF Has(override, "targets") \/ Has(override, "target") THEN override
    ELSE IF Get(override, "state", <<>>) = <<>> \/ Get(override, "transition", <<>>) = <<>>
    THEN override
    ELSE Put(Pop(Pop(Pop(override, "state"), "transition"), "detail"),
             "target",
             _format_target_shorthand(override["state"], override["transition"],
                                      Get(override, "detail", None)))

_compact_single_target_overrides(overrides) ==
    [i \in 1..Len(overrides) |-> CompactOverride(overrides[i])]

Compacted(result, compact_targets) ==
    IF compact_targets THEN _compact_single_target_overrides(result) ELSE result

generate_all_transition_overrides(d, default_start_date, default_dial, group_by_model_detail, only_with_shock, compact_targets) ==
    LET targets == _iter_transition_targets(d)
        overrides == Concat([i \in 1..Len(targets) |->
                        TargetOverrides(targets[i], default_start_date,
                                        default_dial, only_with_shock)])
    IN  Compacted(IF ~group_by_model_detail
                  THEN [i \in 1..Len(overrides) |-> Pop(overrides[i], "_model_detail")]
                  ELSE _group_overrides_by_model_detail(overrides, compact_targets),
                  compact_targets)

\* ------------------------------------ generate, then apply (round trip)
\* A document like Document, its leaf transition named leaf.
DocumentNamed(leaf, shockT, shockD) ==
    [Key |-> [Version |-> Version0],
     State |-> [s \in {StateS} |->
        [Transitions |-> [t \in {leaf, GroupG} |->
            IF t = leaf THEN Leaf(<<"m">>, shockT)
            ELSE [Detail |-> JDict([x \in {DetailD} |-> Leaf(<<"m">>, shockD)]),
                  Version |-> Version0]]]]]

LeafOdd == <<"T", "@", "1">>

\* No Shock, or a simple one: 1.05, 0.9, or the identity 1.0.
SimpleShocks ==
    { <<>>,
      <<SimpleShock(Date1, Dial105)>>,
      <<SimpleShock(Date2, Dial090)>>,
      <<SimpleShock(Date2, Dial1)>> }

RoundTripDocuments ==
    { DocumentNamed(leaf, a, b) : leaf \in {LeafT, LeafOdd}, a \in SimpleShocks, b \in SimpleShocks }

\* The arguments of generate_all_transition_overrides.
GenerateSettings ==
    [default_start_date : {Date1, Date2},
     default_dial : {Dial1, Dial105},
     group_by_model_detail : BOOLEAN,
     only_with_shock : BOOLEAN,
     compact_targets : BOOLEAN]

InitRoundTrip ==
    /\ data \in RoundTripDocuments
    /\ pre = data
    /\ last \in GenerateSettings
    /\ err = NoError
    /\ pc = "idle"
    /\ wellStart = ShapesOK(data)
    /\ out = <<>>
    /\ file = <<>>

\* generate_all_transition_overrides(data, ...) returns the override list.
Generate ==
    /\ pc = "idle"
    /\ out' = generate_all_transition_overrides(
                  data, last.default_start_date, last.default_dial,
                  last.group_by_model_detail, last.only_with_shock,
                  last.compact_targets)
    /\ pc' = "generated"
    /\ UNCHANGED <<data, pre, last, err, wellStart, file>>

\* The generated list is applied to a copy of the document from which
\* every Shock was removed.
ApplyGenerated ==
    /\ pc = "generated"
    /\ Outcome(apply_dial_overrides(StripShocks(pre), out))
    /\ pc' = "returned"
    /\ UNCHANGED <<pre, last, wellStart, out, file>>

NextRoundTrip == Generate \/ ApplyGenerated

SpecRoundTrip == InitRoundTrip /\ [][NextRoundTrip]_vars

\* --- C11
\* The leaves of a document, as paths.
LeafPaths(d) ==
    LET targets == _iter_transition_targets(d)
    IN  {<<targets[i].state, targets[i].transition, targets[i].detail>> : i \in 1..Len(targets)}

\* The multiplier of a Shock: the number its dial string starts with.
Multiplier(shock) == FloatOf(shock["Detail"][1].num)

\* Leaf path of the round-tripped document has the StartDate and the
\* multiplier it has in the original.
SameShock(path) ==
    /\ Has(NodeAt(data, path), "Shock")
    /\ DOMAIN NodeAt(data, path)["Shock"] = {"StartDate", "Detail"}
    /\ NodeAt(data, path)["Shock"]["StartDate"] = NodeAt(pre, path)["Shock"]["StartDate"]
    /\ Multiplier(NodeAt(data, path)["Shock"]) = Multiplier(NodeAt(pre, path)["Shock"])

\* C11 as stated: for every document with only simple shocks and every
\* setting of the generator, the generated list applied to the copy
\* without Shocks returns, and every leaf has the StartDate and multiplier
\* of the original, a leaf that had no Shock having none.
C11_RoundTripAnySetting ==
    pc = "returned" =>
        /\ ~Raised(err)
        /\ \A path \in LeafPaths(pre) :
             IF Has(NodeAt(pre, path), "Shock")
             THEN SameShock(path)
             ELSE ~Has(NodeAt(data, path), "Shock")

\* Every name of the document is one the target shorthand can carry: not
\* empty, free of "->", "@" and surrounding blanks.
WellFormedName(name) ==
    /\ name # <<>>
    /\ Find(name, "@", 1) = 0
    /\ FindArrow(name, 1) = 0
    /\ Strip(name) = name
WellFormedNames(d) ==
    \A path \in LeafPaths(d) :
        /\ WellFormedName(path[1])
        /\ WellFormedName(path[2])
        /\ path[3] # None => WellFormedName(path[3])

\* The settings under which the generator writes no template override
\* for a leaf without a Shock.
NoTemplates == _is_identity_dial(last.default_dial) \/ last.only_with_shock

C11_Case ==
    /\ pc = "returned"
    /\ NoTemplates
    /\ (last.compact_targets => WellFormedNames(pre))

\* C11: for a document whose Shocks are all simple, generated with a
\* default dial that is identity or with only_with_shock set, and with
\* names the shorthand can carry when compact_targets is set, applying the
\* generated list to the copy without Shocks returns, gives every leaf
\* whose multiplier is not identity the StartDate and the multiplier of
\* the original, and leaves every other leaf (no Shock, or an identity
\* multiplier) without a Shock.
C11_RoundTrip ==
    C11_Case =>
        /\ ~Raised(err)
        /\ \A path \in LeafPaths(pre) :
             IF /\ Has(NodeAt(pre, path), "Shock")
                /\ ~_is_identity_dial(Multiplier(NodeAt(pre, path)["Shock"]))
             THEN SameShock(path)
             ELSE ~Has(NodeAt(data, path), "Shock")

\* Two leaves with the same tag, start date and dial went through one
\* grouped override with shorthand targets and came back.
C11_Witness ==
    /\ C11_Case
    /\ last.group_by_model_detail /\ last.compact_targets
    /\ \E i \in 1..Len(out) : Has(out[i], "targets") /\ Len(out[i]["targets"].list) = 2
    /\ \A path \in LeafPaths(pre) :
         Has(NodeAt(pre, path), "Shock") /\ SameShock(path)

\* ================================================ target shorthand
\* The characters names and shorthand strings are made of: a letter, the
\* two characters of the arrow, the detail mark and the blank.
Alphabet == {"a", "-", ">", "@", " "}
Strings(n) == UNION {[1..k -> Alphabet] : k \in 0..n}

\* The two round trips: names formatted and parsed back, a string parsed
\* and formatted back.
ShorthandInputs ==
    [kind : {"names"}, state : Strings(MaxNameLen), transition : Strings(MaxNameLen),
     detail : {None} \cup Strings(1)]
    \cup [kind : {"string"}, value : Strings(MaxShorthandLen)]

InitShorthand ==
    /\ last \in ShorthandInputs
    /\ out = <<>>
    /\ pc = "idle"
    /\ data = EmptyDict
    /\ pre = EmptyDict
    /\ err = NoError
    /\ wellStart = TRUE
    /\ file = <<>>

\* _parse_target_shorthand(_format_target_shorthand(state, transition,
\* detail))
FormatThenParse ==
    /\ pc = "idle"
    /\ last.kind = "names"
    /\ out' = _parse_target_shorthand(
                  _format_target_shorthand(last.state, last.transition, last.detail))
    /\ pc' = "returned"
    /\ UNCHANGED <<data, pre, last, err, wellStart, file>>

\* What the parser made of value, and the string the formatter makes of
\* the parsed target (nothing when the parser raised).
Reformatted(parsed) ==
    [parsed |-> parsed,
     formatted |-> IF Raised(parsed.err) THEN <<>>
                   ELSE <<_format_target_shorthand(parsed.target["state"],
                                                   parsed.target["transition"],
                                                   Get(parsed.target, "detail", None))>>]

ParseThenFormat ==
    /\ pc = "idle"
    /\ last.kind = "string"
    /\ out' = Reformatted(_parse_target_shorthand(last.value))
    /\ pc' = "returned"
    /\ UNCHANGED <<data, pre, last, err, wellStart, file>>

NextShorthand == FormatThenParse \/ ParseThenFormat

SpecShorthand == InitShorthand /\ [][NextShorthand]_vars

\* --- C12
\* value is STATE->TRANSITION or STATE->TRANSITION@DETAIL with names the
\* shorthand can carry.
WellFormedShorthand(value) ==
    \E i \in 1..Len(value), j \in 1..(Len(value) + 1) :
        /\ i + 1 < j
        /\ value[i] = "-" /\ value[i + 1] = ">"
        /\ WellFormedName(SubSeq(value, 1, i - 1))
        /\ WellFormedName(SubSeq(value, i + 2, j - 1))
        /\ j <= Len(value) =>
             /\ value[j] = "@"
             /\ WellFormedName(SubSeq(value, j + 1, Len(value)))

NamesWellFormed ==
    /\ last.kind = "names"
    /\ WellFormedName(last.state)
    /\ WellFormedName(last.transition)
    /\ last.detail # None => WellFormedName(last.detail)

\* C12: on non-empty names free of "->", "@" and surrounding blanks,
\* parse(format(state, transition, detail)) returns without error exactly
\* {state, transition} when detail is absent and {state, transition,
\* detail} otherwise; and for a well-formed shorthand string s the parser
\* does not raise and format(parse(s)) is s.
C12_ShorthandInverse ==
    /\ (pc = "returned" /\ NamesWellFormed) =>
          /\ ~Raised(out.err)
          /\ out.target =
               Update([state |-> last.state, transition |-> last.transition],
                      Opt("detail", last.detail))
    /\ (pc = "returned" /\ last.kind = "string" /\ WellFormedShorthand(last.value)) =>
          /\ ~Raised(out.parsed.err)
          /\ out.formatted = <<last.value>>

\* A well-formed string with a detail, whose names hold a lone "-" and a
\* lone ">", went through parse and format.
C12_Witness ==
    /\ pc = "returned"
    /\ last.kind = "string"
    /\ WellFormedShorthand(last.value)
    /\ Has(out.parsed.target, "detail")
    /\ out.parsed.target["state"] = <<"-">>

\* ====================================== specs with targets and switches
\* The shorthands "S->T", "S->G@D", "S->U" (no such transition) and "ST"
\* (no arrow).
TargetT == <<"S", "-", ">", "T">>
TargetD == <<"S", "-", ">", "G", "@", "D">>
TargetU == <<"S", "-", ">", "U">>
TargetNoArrow == <<"S", "T">>

\* start_date and dial, the fields a spec shares among its targets.
Shared(start_date, dial_value) == [start_date |-> start_date, dial |-> dial_value]

WithTarget(shared, target) == Put(shared, "target", target)
WithTargets(shared, targets) == Put(shared, "targets", JList(targets))

\* Specs that mix the addressing styles.
MixedSpecs ==
    { WithTargets(WithTarget(Shared(Date1, Dial105), TargetT), <<JStr(TargetD)>>),
      Put(WithTarget(Shared(Date1, Dial105), TargetT), "state", StateS),
      Put(WithTargets(Shared(Date1, Dial105), <<JStr(TargetT)>>), "transition", LeafT),
      Update(WithTargets(Shared(Date1, Dial105), <<JStr(TargetT), JStr(TargetD)>>),
             [state |-> StateS, transition |-> LeafT]),
      Update(WithTargets(WithTarget(Shared(Date1, Dial105), TargetT), <<JStr(TargetD)>>),
             [state |-> StateS, transition |-> LeafT]) }

\* Specs that fail when applied: a missing path, a cohort override that
\* may neither add nor convert, a second target that is missing, and a
\* target without arrow.
FailingSpecs ==
    { Override(StateS, <<"U">>, None, None, Date1, Dial105, "absent", "absent"),
      Override(StateS, LeafT, None, CohortB, Date1, Dial105, "false", "false"),
      WithTargets(Shared(Date2, Dial090), <<JStr(TargetD), JStr(TargetU)>>),
      WithTarget(Shared(Date2, Dial090), TargetNoArrow) }

\* Specs that address leaves that are there: a simple override on leaf T,
\* one on the detail leaf, one by target, one with both as targets, and an
\* identity dial on leaf T.
SoundSpecs ==
    { Override(StateS, LeafT, None, None, Date1, Dial105, "absent", "absent"),
      Override(StateS, GroupG, DetailD, None, Date2, Dial090, "absent", "absent"),
      WithTarget(Shared(Date2, Dial090), TargetT),
      WithTargets(Shared(Date2, Dial105),
                  <<JStr(TargetT), JDict([state |-> StateS, transition |-> GroupG,
                                          detail |-> DetailD])>>),
      Override(StateS, LeafT, None, None, Date1, Dial1, "absent", "absent") }

\* A spec switched off, by disabled: true or by enabled: false; and a
\* spec that carries the keys with the other value, which switches
\* nothing.
SwitchedOff(spec) == {Put(spec, "disabled", TRUE), Put(spec, "enabled", FALSE)}
SwitchedOn(spec) == {Put(spec, "disabled", FALSE), Put(spec, "enabled", TRUE)}

SwitchSpecs ==
    UNION {SwitchedOff(spec) : spec \in MixedSpecs \cup FailingSpecs \cup SoundSpecs}
    \cup UNION {SwitchedOn(spec) :
            spec \in {Override(StateS, LeafT, None, None, Date1, Dial105, "absent", "absent"),
                      Override(StateS, <<"U">>, None, None, Date1, Dial105, "absent", "absent")}}

\* Override lists: every spec alone, and the lists of up to MaxSpecs
\* specs drawn from one spec of each kind.
ListSpecs ==
    { Override(StateS, LeafT, None, None, Date1, Dial105, "absent", "absent"),
      Override(StateS, GroupG, DetailD, None, Date2, Dial090, "absent", "absent"),
      WithTargets(Shared(Date2, Dial105),
                  <<JStr(TargetT), JDict([state |-> StateS, transition |-> GroupG,
                                          detail |-> DetailD])>>),
      Put(WithTarget(Shared(Date1, Dial105), TargetT), "state", StateS),
      WithTargets(WithTarget(Shared(Date1, Dial105), TargetT), <<JStr(TargetD)>>),
      Override(StateS, <<"U">>, None, None, Date1, Dial105, "absent", "absent"),
      WithTargets(Shared(Date2, Dial090), <<JStr(TargetD), JStr(TargetU)>>),
      Put(Override(StateS, <<"U">>, None, None, Date1, Dial105, "absent", "absent"),
          "disabled", TRUE),
      Put(WithTargets(WithTarget(Shared(Date1, Dial105), TargetT), <<JStr(TargetD)>>),
          "enabled", FALSE),
      Put(Override(StateS, LeafT, None, CohortB, Date1, Dial105, "false", "false"),
          "disabled", TRUE) }

SpecLists ==
    {<<spec>> : spec \in MixedSpecs \cup FailingSpecs \cup SoundSpecs \cup SwitchSpecs}
        \cup UNION {SeqsOfLen(ListSpecs, n) : n \in 2..MaxSpecs}

\* One call of apply_dial_overrides on the loaded document, with a list
\* of such specs.
NextSpecs == \E overrides \in SpecLists : Apply(overrides)

SpecSpecs == Init /\ [][NextSpecs]_vars

\* --- C13
\* The document and outcome after the specs before the k-th of the list.
BeforeSpec(k) == apply_dial_overrides(pre, SubSeq(last, 1, k - 1))
\* The k-th spec of the list was reached: it exists and no spec before
\* it raised.
Reached(k) == Returned /\ k \in 1..Len(last) /\ ~Raised(BeforeSpec(k).err)

HasBothTargets(spec) == Has(spec, "target") /\ Has(spec, "targets")
HasOuterPath(spec) ==
    /\ Has(spec, "target") \/ Has(spec, "targets")
    /\ Has(spec, "state") \/ Has(spec, "transition")

\* C13: when the call reaches a spec that is not switched off and that
\* has both target and targets, it raises "Override cannot include both
\* target and targets"; when it reaches one that has target or targets
\* (not both) together with an outer state or transition, it raises
\* "Override with targets must not include state/transition"; in both
\* cases the document is as the specs before it left it.
C13_MixedRejected ==
    \A k \in 1..Len(last) :
        (Reached(k) /\ ~IsDisabled(last[k])) =>
            /\ HasBothTargets(last[k]) =>
                 /\ err = ValueError("Override cannot include both target and targets")
                 /\ data = BeforeSpec(k).data
            /\ (HasOuterPath(last[k]) /\ ~HasBothTargets(last[k])) =>
                 /\ err = ValueError("Override with targets must not include state/transition")
                 /\ data = BeforeSpec(k).data

\* A list whose second spec has a target and an outer state, after a
\* first spec that changed the document.
C13_Witness ==
    /\ Reached(2)
    /\ HasOuterPath(last[2]) /\ ~HasBothTargets(last[2])
    /\ BeforeSpec(2).data # pre
    /\ Raised(err)

\* ====================================================== the expander
\* The fields a spec shares among its targets: dates and dials alone, with
\* a cohort, its flag and a note, and with a detail at the outer level.
SharedFields ==
    { Shared(Date1, Dial105),
      [start_date |-> Date2, dial |-> Dial090, cohort |-> CohortA,
       add_cohort |-> TRUE, model_detail |-> <<"m">>],
      [start_date |-> Date1, dial |-> Dial105, detail |-> <<"E">>] }

\* The entries of a targets list: shorthands and mappings, with and
\* without detail; and entries that are no target (no arrow, no
\* transition, a number).
TargetEntries ==
    { JStr(TargetT), JStr(TargetD),
      JDict([state |-> StateS, transition |-> LeafT]),
      JDict([state |-> StateS, transition |-> GroupG, detail |-> DetailD]),
      JStr(TargetNoArrow),
      JDict([state |-> StateS]),
      [num |-> 1] }

\* The values of the targets key: lists of up to MaxTargets entries, and
\* a string and a mapping where the list should be.
TargetsValues ==
    {JList(l) : l \in UNION {SeqsOfLen(TargetEntries, n) : n \in 0..MaxTargets}}
        \cup {JStr(TargetT), JDict([state |-> StateS, transition |-> LeafT])}

ExpandInputs ==
    {Put(shared, "targets", v) : shared \in SharedFields, v \in TargetsValues}
        \cup {WithTarget(shared, t) : shared \in SharedFields, t \in {TargetT, TargetD, TargetNoArrow}}
        \cup SharedFields \cup SoundSpecs \cup MixedSpecs

InitExpand ==
    /\ last \in ExpandInputs
    /\ out = <<>>
    /\ pc = "idle"
    /\ data = EmptyDict
    /\ pre = EmptyDict
    /\ err = NoError
    /\ wellStart = TRUE
    /\ file = <<>>

\* _expand_override_targets(override): the list it returns, or the
\* exception it raises.
Expand ==
    /\ pc = "idle"
    /\ out' = _expand_override_targets(last)
    /\ pc' = "returned"
    /\ UNCHANGED <<data, pre, last, err, wellStart, file>>

NextExpand == Expand

SpecExpand == InitExpand /\ [][NextExpand]_vars

\* --- C14
\* A targets entry is a shorthand STATE->TRANSITION[@DETAIL] or a mapping
\* {state, transition, detail?}.
WellFormedEntry(entry) ==
    \/ Has(entry, "str") /\ WellFormedShorthand(entry.str)
    \/ /\ Has(entry, "dict")
       /\ {"state", "transition"} \subseteq DOMAIN entry.dict
       /\ DOMAIN entry.dict \subseteq {"state", "transition", "detail"}

\* The target an entry names.
TargetOf(entry) ==
    IF Has(entry, "dict") THEN entry.dict ELSE _parse_target_shorthand(entry.str).target

\* The spec has a targets list of n >= 1 well-formed entries (and
\* nothing the expander rejects it for).
C14_Case ==
    /\ pc = "returned"
    /\ Has(last, "targets") /\ ~Has(last, "target")
    /\ ~Has(last, "state") /\ ~Has(last, "transition")
    /\ IsList(last["targets"])
    /\ Len(last["targets"].list) >= 1
    /\ \A k \in 1..Len(last["targets"].list) : WellFormedEntry(last["targets"].list[k])

SharedKeys == DOMAIN last \ {"target", "targets"}

\* Override addresses target: the same state, transition and detail (or
\* none).
Addresses(override, target) ==
    /\ Has(override, "state") /\ override["state"] = target["state"]
    /\ Has(override, "transition") /\ override["transition"] = target["transition"]
    /\ Get(override, "detail", None) = Get(target, "detail", None)

\* What C14 says of the other specs: an empty or non-list targets fails,
\* a spec with neither target nor targets expands to itself.
C14_Others ==
    /\ (/\ pc = "returned"
        /\ Has(last, "targets")
        /\ (~IsList(last["targets"]) \/ Get(last["targets"], "list", <<>>) = <<>>))
          => Raised(out.err)
    /\ (pc = "returned" /\ ~Has(last, "targets") /\ ~Has(last, "target"))
          => (~Raised(out.err) /\ out.list = <<last>>)

\* C14 as stated: the expander returns n overrides in the order of the
\* targets, the k-th addressing the k-th target and carrying every shared
\* field of the spec and neither target nor targets.
C14_CarriesEveryField ==
    /\ C14_Case =>
         /\ ~Raised(out.err)
         /\ Len(out.list) = Len(last["targets"].list)
         /\ \A k \in 1..Len(out.list) :
              /\ Addresses(out.list[k], TargetOf(last["targets"].list[k]))
              /\ \A key \in SharedKeys :
                   Has(out.list[k], key) /\ out.list[k][key] = last[key]
              /\ ~Has(out.list[k], "target") /\ ~Has(out.list[k], "targets")
    /\ C14_Others

\* C14: the expander returns n overrides in the order of the targets; the
\* k-th has the state and transition of the k-th target, the detail of
\* the k-th target when that names one and else the spec's outer detail
\* when there is one, every other shared field of the spec, and no other
\* key (neither target nor targets); an empty or non-list targets fails;
\* a spec with neither target nor targets expands to exactly itself.
C14_OnePerTarget ==
    /\ C14_Case =>
         /\ ~Raised(out.err)
         /\ Len(out.list) = Len(last["targets"].list)
         /\ \A k \in 1..Len(out.list) :
              LET target == TargetOf(last["targets"].list[k])
              IN  /\ DOMAIN out.list[k] = SharedKeys \cup DOMAIN target
                  /\ out.list[k]["state"] = target["state"]
                  /\ out.list[k]["transition"] = target["transition"]
                  /\ Has(target, "detail") => out.list[k]["detail"] = target["detail"]
                  /\ \A key \in SharedKeys \ {"detail"} : out.list[k][key] = last[key]
                  /\ (Has(last, "detail") /\ ~Has(target, "detail"))
                        => out.list[k]["detail"] = last["detail"]
    /\ C14_Others

\* Two different targets, a shorthand with detail and a mapping without,
\* were expanded with a cohort among the shared fields.
C14_Witness ==
    /\ C14_Case
    /\ Len(out.list) = 2
    /\ Has(last, "cohort")
    /\ Has(last["targets"].list[1], "str")
    /\ Has(out.list[1], "detail")
    /\ Has(last["targets"].list[2], "dict")
    /\ ~Has(out.list[2], "detail")

\* --- C15
\* The spec carries disabled: true or enabled: false.
IsSwitchedOff(spec) ==
    \/ Has(spec, "disabled") /\ spec["disabled"] = TRUE
    \/ Has(spec, "enabled") /\ spec["enabled"] = FALSE

\* The specs after the k-th of the list.
AfterSpec(k) == SubSeq(last, k + 1, Len(last))

\* C15: when the call reaches a spec with disabled: true or enabled:
\* false, whatever else the spec holds, the call goes on as if the spec
\* were not in the list: the document and the outcome are those of the
\* specs after it applied to the document the specs before it left (for a
\* list of that spec alone: no exception, the document unchanged).
C15_DisabledSkipped ==
    \A k \in 1..Len(last) :
        (Reached(k) /\ IsSwitchedOff(last[k])) =>
            /\ data = apply_dial_overrides(BeforeSpec(k).data, AfterSpec(k)).data
            /\ err = apply_dial_overrides(BeforeSpec(k).data, AfterSpec(k)).err
            /\ Len(last) = 1 => (data = pre /\ ~Raised(err))

\* A list whose first spec is switched off by enabled: false and has both
\* target and targets, and whose second spec changed the document.
C15_Witness ==
    /\ Returned
    /\ Len(last) = 2
    /\ Has(last[1], "enabled") /\ last[1]["enabled"] = FALSE
    /\ HasBothTargets(last[1])
    /\ ~Raised(err)
    /\ data # pre

\* ===================================================== version strings
Digits == <<"0", "1", "2", "3", "4", "5", "6", "7", "8", "9">>
IsDigit(ch) == \E i \in 1..10 : Digits[i] = ch
DigitValue(ch) == (CHOOSE i \in 1..10 : Digits[i] = ch) - 1

\* The character at index i of str, "$" past its end.
At(str, i) == IF i <= Len(str) THEN str[i] ELSE "$"

\* The first index from i on that holds no digit: where \d+ stops.
RECURSIVE DigitsEnd(_, _)
DigitsEnd(str, i) ==
    IF IsDigit(At(str, i)) THEN DigitsEnd(str, i + 1) ELSE i

\* Where [Vv]? stops when tried at index i.
PrefixEnd(str, i) == IF At(str, i) \in {"V", "v"} THEN i + 1 ELSE i

\* int(digits) and str(n).
RECURSIVE IntOf(_)
IntOf(digits) ==
    IF digits = <<>> THEN 0
    ELSE 10 * IntOf(SubSeq(digits, 1, Len(digits) - 1)) + DigitValue(digits[Len(digits)])
RECURSIVE StrOf(_)
StrOf(n) == IF n < 10 THEN <<Digits[n + 1]>> ELSE StrOf(n \div 10) \o <<Digits[(n % 10) + 1]>>

\* _VERSION_RE matched against version.strip(): the groups, or the
\* ValueError when the string does not match.  No group can match in two
\* ways, so the match is read off left to right.
_split_version(version) ==
    LET v == Strip(version)
        major0 == PrefixEnd(v, 1)
        major1 == DigitsEnd(v, major0)
        minor0 == major1 + 1
        minor1 == DigitsEnd(v, minor0)
        patch0 == PrefixEnd(v, minor1 + 1)
        patch1 == DigitsEnd(v, patch0)
        extra0 == PrefixEnd(v, patch1 + 1)
        extra1 == DigitsEnd(v, extra0)
        head == /\ major1 > major0 /\ At(v, major1) = "."
                /\ minor1 > minor0 /\ At(v, minor1) = "."
                /\ patch1 > patch0
        groups == [prefix |-> SubSeq(v, 1, major0 - 1),
                   major |-> SubSeq(v, major0, major1 - 1),
                   minor |-> SubSeq(v, minor0, minor1 - 1),
                   patch_prefix |-> SubSeq(v, minor1 + 1, patch0 - 1),
                   patch |-> SubSeq(v, patch0, patch1 - 1)]
    IN  IF head /\ patch1 = Len(v) + 1
        THEN [err |-> NoError, groups |-> groups]
        ELSE IF /\ head /\ At(v, patch1) = "."
                /\ extra1 > extra0 /\ extra1 = Len(v) + 1
        THEN [err |-> NoError,
              groups |-> Update(groups,
                                [extra_prefix |-> SubSeq(v, patch1 + 1, extra0 - 1),
                                 extra |-> SubSeq(v, extra0, extra1 - 1)])]
        ELSE [err |-> ValueError("Unrecognized version format"), groups |-> EmptyDict]

\* The bumped string the groups give.
Bumped(g) ==
    IF Has(g, "extra")
    THEN g.prefix \o g.major \o <<".">> \o g.minor \o <<".">> \o g.patch_prefix \o g.patch
             \o <<".">> \o g.extra_prefix \o StrOf(IntOf(g.extra) + 1)
    ELSE g.prefix \o g.major \o <<".">> \o g.minor \o <<".">> \o g.patch_prefix
             \o StrOf(IntOf(g.patch) + 1)

\* _bump_version_string that bumps the patch whether or not there is an
\* extra segment.
_bump_version_string_patch_only(version) ==
    IF Raised(_split_version(version).err)
    THEN [err |-> _split_version(version).err, value |-> <<>>]
    ELSE [err |-> NoError, value |-> Bumped(Pop(Pop(_split_version(version).groups, "extra"), "extra_prefix"))]

_bump_version_string(version) ==
    IF Raised(_split_version(version).err)
    THEN [err |-> _split_version(version).err, value |-> <<>>]
    ELSE [err |-> NoError, value |-> Bumped(_split_version(version).groups)]

\* The version strings handed to _bump_version_string: every string of
\* up to MaxVersionLen characters, the strings built from segments (with
\* and without prefixes and extra, digits that carry or lead with zero),
\* and those with a blank before or after.
VersionAlphabet == {"v", "1", "9", ".", " "}
Numerals(n) == UNION {[1..k -> {"0", "1", "9"}] : k \in 1..n}
Segmented ==
    { p \o major \o <<".">> \o <<"2">> \o <<".">> \o pp \o patch \o tail :
        p \in {<<>>, <<"v">>},
        major \in {<<"1">>, <<"1", "0">>},
        pp \in {<<>>, <<"V">>},
        patch \in Numerals(MaxDigits),
        tail \in {<<>>} \cup {<<".">> \o ep \o extra :
                               ep \in {<<>>, <<"v">>}, extra \in Numerals(MaxDigits)} }
VersionInputs ==
    UNION {[1..k -> VersionAlphabet] : k \in 0..MaxVersionLen}
        \cup Segmented
        \cup {<<" ">> \o v : v \in Segmented}
        \cup {v \o <<"x">> : v \in Segmented}

InitVersion ==
    /\ last \in VersionInputs
    /\ out = <<>>
    /\ pc = "idle"
    /\ data = EmptyDict
    /\ pre = EmptyDict
    /\ err = NoError
    /\ wellStart = TRUE
    /\ file = <<>>

\* _bump_version_string(version): the string it returns, or the
\* exception it raises.
Bump ==
    /\ pc = "idle"
    /\ out' = _bump_version_string(last)
    /\ pc' = "returned"
    /\ UNCHANGED <<data, pre, last, err, wellStart, file>>

NextVersion == Bump

SpecVersion == InitVersion /\ [][NextVersion]_vars

\* --- C19
\* The pieces of str between its dots.
RECURSIVE SplitDots(_)
SplitDots(str) ==
    IF Find(str, ".", 1) = 0 THEN <<str>>
    ELSE <<SubSeq(str, 1, Find(str, ".", 1) - 1)>>
             \o SplitDots(SubSeq(str, Find(str, ".", 1) + 1, Len(str)))

AllDigits(str) == str # <<>> /\ \A i \in 1..Len(str) : IsDigit(str[i])
\* [v]NUMBER
IsSegment(str) ==
    \/ AllDigits(str)
    \/ str # <<>> /\ str[1] \in {"V", "v"} /\ AllDigits(Tail(str))
SegmentPrefix(str) == IF str[1] \in {"V", "v"} THEN <<str[1]>> ELSE <<>>
SegmentDigits(str) == IF str[1] \in {"V", "v"} THEN Tail(str) ELSE str

\* str is [v]MAJOR.MINOR.[v]PATCH[.[v]EXTRA].
IsVersion(str) ==
    LET parts == SplitDots(str)
    IN  /\ Len(parts) \in {3, 4}
        /\ IsSegment(parts[1])
        /\ AllDigits(parts[2])
        /\ \A i \in 3..Len(parts) : IsSegment(parts[i])

RECURSIVE JoinDots(_)
JoinDots(parts) ==
    IF Len(parts) = 1 THEN parts[1]
    ELSE parts[1] \o <<".">> \o JoinDots(Tail(parts))

\* The version with the number of its last segment raised by one, the
\* prefixes and the other segments as they are.
LastSegmentRaised(str) ==
    LET parts == SplitDots(str)
        n == Len(parts)
    IN  JoinDots([parts EXCEPT ![n] =
            SegmentPrefix(parts[n]) \o StrOf(IntOf(SegmentDigits(parts[n])) + 1)])

\* C19 as stated: on a string of the shape the result is the string with
\* the number of the extra segment (of the patch segment when there is no
\* extra) raised by one, and on any other string the call raises.
C19_BumpOrFail ==
    pc = "returned" =>
        IF IsVersion(last)
        THEN ~Raised(out.err) /\ out.value = LastSegmentRaised(last)
        ELSE Raised(out.err) /\ out.err.msg = "Unrecognized version format"

\* C19: the same, where the shape is asked of the string without its
\* surrounding whitespace: a string that has the shape once stripped is
\* bumped (the result carries no surrounding whitespace), any other
\* string raises the unrecognized-version error.
C19_BumpVersion ==
    pc = "returned" =>
        IF IsVersion(Strip(last))
        THEN ~Raised(out.err) /\ out.value = LastSegmentRaised(Strip(last))
        ELSE Raised(out.err) /\ out.err.msg = "Unrecognized version format"

\* A version with prefixes and an extra segment whose number carries into
\* a new digit was bumped.
C19_Witness ==
    /\ pc = "returned"
    /\ IsVersion(last)
    /\ Len(SplitDots(last)) = 4
    /\ last[1] = "v"
    /\ SplitDots(last)[4] = <<"v", "9", "9">>
    /\ SplitDots(out.value)[4] = <<"v", "1", "0", "0">>
    /\ SplitDots(out.value)[3] = SplitDots(last)[3]

\* ============================================================ run mode
\* update_all_versions asks of every value whether it is a dict or a
\* list.  The documents of the model hold, by place: at the root Key (a
\* dict of plain values), State (states by name) and History (a list of
\* dicts); in a state Transitions (nodes by name); in a node Detail (a
\* tag, or for a grouped transition the nodes by detail name) and Shock;
\* in a Shock Cohorts (a list of dicts); in a dict of plain values Inner
\* (one more such dict).  Every other value is a string, a number or a
\* boolean.
ChildKind(kind, key) ==
    CASE kind = "document" ->
            (IF key = "Key" THEN "plain"
             ELSE IF key = "State" THEN "states"
             ELSE IF key = "History" THEN "plainlist" ELSE "leaf")
      [] kind = "plain" -> (IF key = "Inner" THEN "plain" ELSE "leaf")
      [] kind = "states" -> "state"
      [] kind = "state" -> (IF key = "Transitions" THEN "transitions" ELSE "leaf")
      [] kind = "transitions" -> "node"
      [] kind = "details" -> "node"
      [] kind = "node" ->
            (IF key = "Detail" THEN "detail"
             ELSE IF key = "Shock" THEN "shock" ELSE "leaf")
      [] kind = "shock" -> (IF key = "Cohorts" THEN "plainlist" ELSE "leaf")

\* The key "Version", as the key of a dict whose keys are names.
VersionName == <<"V", "e", "r", "s", "i", "o", "n">>
IsVersionKey(kind, key) ==
    IF kind \in {"states", "transitions", "details"}
    THEN key = VersionName ELSE key = "Version"

\* update_all_versions that does not go into lists.
RECURSIVE update_all_versions_skips_lists(_, _, _)
update_all_versions_skips_lists(node, kind, new_version) ==
    IF kind \in {"leaf", "plainlist"} THEN node
    ELSE IF kind = "detail"
    THEN IF IsDict(node)
         THEN JDict(update_all_versions_skips_lists(node.dict, "details", new_version))
         ELSE node
    ELSE [key \in DOMAIN node |->
            IF IsVersionKey(kind, key) THEN new_version
            ELSE update_all_versions_skips_lists(node[key], ChildKind(kind, key), new_version)]

\* The node after update_all_versions(node, new_version) rewrote it in
\* place; kind says what the node is.
RECURSIVE update_all_versions(_, _, _)
update_all_versions(node, kind, new_version) ==
    IF kind = "leaf" THEN node
    ELSE IF kind = "plainlist"
    THEN [i \in 1..Len(node) |-> update_all_versions(node[i], "plain", new_version)]
    ELSE IF kind = "detail"
    THEN IF IsDict(node)
         THEN JDict(update_all_versions(node.dict, "details", new_version))
         ELSE node
    ELSE [key \in DOMAIN node |->
            IF IsVersionKey(kind, key) THEN new_version
            ELSE update_all_versions(node[key], ChildKind(kind, key), new_version)]

\* Key.Version when Key is there and has one, else the root's Version,
\* else nothing: the one-element or empty list of what was found.
_extract_root_version(d) ==
    IF Has(d, "Key") /\ Has(d["Key"], "Version") THEN <<d["Key"]["Version"]>>
    ELSE IF Has(d, "Version") THEN <<d["Version"]>>
    ELSE <<>>

\* The documents run mode loads: those of Document with a History list
\* whose entries hold a Version, one of them a level further down; with a
\* Key that has a version, one that has none, and one whose version is
\* no version string.
History ==
    << [Version |-> Version0, Note |-> "first"],
       [Note |-> "second", Inner |-> [Version |-> <<"0", ".", "9", ".", "0">>]] >>

RootKeys ==
    { [Version |-> Version0],
      [Name |-> "model"],
      [Version |-> <<"d", "r", "a", "f", "t">>] }

RunDocuments ==
    { [Document(a, b) EXCEPT !["Key"] = key] @@ [History |-> History] :
        a \in ShocksT, b \in ShocksD, key \in RootKeys }

\* The override lists of a run: sound and failing specs alone, and the
\* pairs of four of them.
RunSpecs ==
    { Override(StateS, LeafT, None, None, Date1, Dial105, "absent", "absent"),
      Override(StateS, GroupG, DetailD, None, Date2, Dial090, "absent", "absent"),
      Override(StateS, <<"U">>, None, None, Date1, Dial105, "absent", "absent"),
      WithTargets(Shared(Date2, Dial090), <<JStr(TargetD), JStr(TargetU)>>) }

RunLists ==
    {<<spec>> : spec \in SoundSpecs \cup FailingSpecs} \cup SeqsOfLen(RunSpecs, 2)

\* The version the spec file or the command line gives, if any.
GivenVersions == {None, <<"v", "2", ".", "0", ".", "0">>}

InitRun ==
    /\ data \in RunDocuments
    /\ pre = data
    /\ last \in [overrides : RunLists, version : GivenVersions]
    /\ err = NoError
    /\ pc = "loaded"
    /\ wellStart = ShapesOK(data)
    /\ out = <<>>
    /\ file = <<>>

\* The outcome of _bump_version_string on the root version, kept in out
\* (the run's version) or in err.
Resolved(bumped) ==
    IF Raised(bumped.err)
    THEN err' = bumped.err /\ pc' = "failed" /\ out' = out
    ELSE out' = bumped.value /\ pc' = "resolved" /\ err' = err

\* main, lines 767-771: the version given, else the root version bumped.
ResolveVersion ==
    /\ pc = "loaded"
    /\ IF last.version # None
       THEN out' = last.version /\ pc' = "resolved" /\ err' = err
       ELSE IF _extract_root_version(data) = <<>>
       THEN /\ err' = ValueError("Unable to infer version. Provide --version.")
            /\ pc' = "failed" /\ out' = out
       ELSE Resolved(_bump_version_string(_extract_root_version(data)[1]))
    /\ UNCHANGED <<data, pre, last, wellStart, file>>

\* Applied that lets the run go on after an exception.
Applied_ignores_failure(r) ==
    /\ data' = r.data
    /\ err' = r.err
    /\ pc' = "applied"

\* What apply_dial_overrides left: the document, and the exception that
\* ends the run.
Applied(r) ==
    /\ data' = r.data
    /\ err' = r.err
    /\ pc' = IF Raised(r.err) THEN "failed" ELSE "applied"

\* main, line 774.
RunApply ==
    /\ pc = "resolved"
    /\ Applied(apply_dial_overrides(data, last.overrides))
    /\ UNCHANGED <<pre, last, wellStart, out, file>>

\* main, line 775.
RunVersions ==
    /\ pc = "applied"
    /\ data' = update_all_versions(data, "document", out)
    /\ pc' = "versioned"
    /\ UNCHANGED <<pre, last, err, wellStart, out, file>>

\* main, line 776: save_json writes the document to the output file.
RunSave ==
    /\ pc = "versioned"
    /\ file' = <<data>>
    /\ pc' = "saved"
    /\ UNCHANGED <<data, pre, last, err, wellStart, out>>

NextRun == ResolveVersion \/ RunApply \/ RunVersions \/ RunSave

SpecRun == InitRun /\ [][NextRun]_vars

\* --- C16
\* The values of the fields named Version anywhere in the node.
RECURSIVE VersionsIn(_, _)
VersionsIn(node, kind) ==
    IF kind = "leaf" THEN {}
    ELSE IF kind = "plainlist"
    THEN UNION {VersionsIn(node[i], "plain") : i \in 1..Len(node)}
    ELSE IF kind = "detail"
    THEN IF IsDict(node) THEN VersionsIn(node.dict, "details") ELSE {}
    ELSE UNION { IF IsVersionKey(kind, key) THEN {node[key]}
                 ELSE VersionsIn(node[key], ChildKind(kind, key)) : key \in DOMAIN node }

\* The node without its fields named Version.
RECURSIVE WithoutVersions(_, _)
WithoutVersions(node, kind) ==
    IF kind = "leaf" THEN node
    ELSE IF kind = "plainlist"
    THEN [i \in 1..Len(node) |-> WithoutVersions(node[i], "plain")]
    ELSE IF kind = "detail"
    THEN IF IsDict(node) THEN JDict(WithoutVersions(node.dict, "details")) ELSE node
    ELSE [key \in {k \in DOMAIN node : ~IsVersionKey(kind, k)} |->
            WithoutVersions(node[key], ChildKind(kind, key))]

\* The version of the run: the one given, else the root version v1.8.0
\* bumped.
RunVersion ==
    IF last.version # None THEN last.version ELSE <<"v", "1", ".", "8", ".", "1">>

\* C16: once the run has rewritten the versions (and when it has saved
\* the file), every field named Version of the document, in mappings and
\* in the entries of lists at any depth, holds the run's version, and the
\* document without its Version fields is the document the overrides
\* left, without its Version fields.
C16_AllVersions ==
    pc \in {"versioned", "saved"} =>
        /\ out = RunVersion
        /\ VersionsIn(data, "document") = {out}
        /\ WithoutVersions(data, "document") =
               WithoutVersions(apply_dial_overrides(pre, last.overrides).data, "document")
        /\ pc = "saved" => file = <<data>>

\* A run without a given version saved a document in which an override
\* wrote a Shock and whose History entries hold the bumped version.
C16_Witness ==
    /\ pc = "saved"
    /\ last.version = None
    /\ file[1]["History"][2]["Inner"]["Version"] = <<"v", "1", ".", "8", ".", "1">>
    /\ file[1]["History"][1]["Version"] = <<"v", "1", ".", "8", ".", "1">>
    /\ WithoutVersions(file[1], "document") # WithoutVersions(pre, "document")

\* --- C17
\* C17: the output file holds a document only once the run has saved it,
\* and then every override of the batch was applied without an exception
\* and the document written is the one the whole batch left, with every
\* Version field rewritten; a run that an exception ended has written no
\* file.
C17_SavedOnlyWhenWhole ==
    /\ file # <<>> =>
          /\ pc = "saved"
          /\ ~Raised(err)
          /\ ~Raised(apply_dial_overrides(pre, last.overrides).err)
          /\ VersionsIn(file[1], "document") = {out}
          /\ WithoutVersions(file[1], "document") =
                 WithoutVersions(apply_dial_overrides(pre, last.overrides).data,
                                 "document")
    /\ (Raised(err) \/ pc = "failed") => file = <<>>

\* A batch of two overrides was applied and the document saved: the file
\* holds the Shocks of both and the run's version.
C17_Witness ==
    /\ pc = "saved"
    /\ Len(last.overrides) = 2
    /\ last.overrides[1] # last.overrides[2]
    /\ file[1] = update_all_versions(
                     apply_dial_overrides(
                         apply_dial_overrides(pre, <<last.overrides[1]>>).data,
                         <<last.overrides[2]>>).data,
                     "document", out)
    /\ file[1] # update_all_versions(
                     apply_dial_overrides(pre, <<last.overrides[1]>>).data,
                     "document", out)
    /\ file[1] # update_all_versions(
                     apply_dial_overrides(pre, <<last.overrides[2]>>).data,
                     "document", out)

\* --- C18
\* What the k-th spec of the list does on its own to the document the
\* specs before it left: its targets in order, up to the first that
\* raises.
KthAlone(k) ==
    IF Raised(_expand_override_targets(last[k]).err)
    THEN [data |-> BeforeSpec(k).data, err |-> _expand_override_targets(last[k]).err]
    ELSE ApplyExpanded(BeforeSpec(k).data, _expand_override_targets(last[k]).list)

\* The k-th spec of the list is reached, is not switched off, and raises.
FailsAt(k) == Reached(k) /\ ~IsSwitchedOff(last[k]) /\ Raised(KthAlone(k).err)

\* C18: when the k-th spec of the list raises, the call ends with that
\* exception and the document is the one the specs before the k-th left,
\* with what the k-th did before it raised and nothing of the specs after
\* it; a spec that raises when it is expanded, or whose one path is not
\* in the document, leaves the document exactly as the specs before it
\* left it.
C18_NoRollback ==
    \A k \in 1..Len(last) :
        FailsAt(k) =>
            /\ err = KthAlone(k).err
            /\ data = KthAlone(k).data
            /\ Raised(_expand_override_targets(last[k]).err) => data = BeforeSpec(k).data
            /\ (~Has(last[k], "targets") /\ Get(last[k], "transition", None) = <<"U">>)
                  => data = BeforeSpec(k).data

\* The second spec of a list raised after the first had changed the
\* document: the document is the one the first spec left.
C18_Witness ==
    /\ Returned
    /\ Len(last) = 2
    /\ FailsAt(2)
    /\ BeforeSpec(2).data # pre
    /\ data = BeforeSpec(2).data

\* ============================================== dial_utils.dial_schedule
\* The defaults of flat_months and ramp_months.
DefaultFlatMonths == 48
DefaultRampMonths == 23

RECURSIVE StripAllZeros(_)
StripAllZeros(digits) ==
    IF digits # <<>> /\ digits[Len(digits)] = 0
    THEN StripAllZeros(SubSeq(digits, 1, Len(digits) - 1))
    ELSE digits

\* trim_float(x) for the float that is m thousandths: format(x, "f")
\* without its trailing zeros and without a trailing ".", as a string of
\* characters ("1", "1.05", "-0.5").  Negative zero is not among the
\* values of the model.
trim_float(m) ==
    LET a == IF m < 0 THEN -m ELSE m
        f == a % 1000
        decimals == StripAllZeros(<<f \div 100, (f \div 10) % 10, f % 10>>)
    IN  (IF m < 0 THEN <<"-">> ELSE <<>>)
            \o StrOf(a \div 1000)
            \o (IF decimals = <<>> THEN <<>>
                ELSE <<".">> \o [i \in 1..Len(decimals) |-> Digits[decimals[i] + 1]])

\* The ramp value of a ramp that starts one step below x and ends at 1.0:
\* round(((ramp_months - i) * x + i) / ramp_months, 3).
ScheduleValue_from_below(xm, ramp_months, i, ties_up) ==
    LET numerator == (ramp_months - i) * xm + i * 1000
        q == numerator \div ramp_months
        r == numerator % ramp_months
    IN  IF 2 * r < ramp_months THEN q
        ELSE IF 2 * r > ramp_months THEN q + 1
        ELSE IF i \in ties_up THEN q + 1 ELSE q

\* round(((ramp_months + 1 - i) * x + i - 1) / ramp_months, 3) in
\* thousandths, x being xm thousandths.  Where the quotient is an exact
\* tie in decimal, the way round() goes depends on the binary float: it
\* goes up at the steps in ties_up and down at the others.
ScheduleValue(xm, ramp_months, i, ties_up) ==
    LET numerator == (ramp_months + 1 - i) * xm + (i - 1) * 1000
        q == numerator \div ramp_months
        r == numerator % ramp_months
    IN  IF 2 * r < ramp_months THEN q
        ELSE IF 2 * r > ramp_months THEN q + 1
        ELSE IF i \in ties_up THEN q + 1 ELSE q

\* " ".join(parts)
RECURSIVE JoinBlanks(_)
JoinBlanks(parts) ==
    IF parts = <<>> THEN <<>>
    ELSE IF Len(parts) = 1 THEN parts[1]
    ELSE parts[1] \o <<" ">> \o JoinBlanks(Tail(parts))

\* f"{trim_float(v)}x for {months}"
SchedulePart(m, months) == trim_float(m) \o <<"x", " ", "f", "o", "r", " ">> \o StrOf(months)

\* dial_schedule that leaves out the last step of the ramp.
dial_schedule_short_ramp(x, flat_months, ramp_months, ties_up) ==
    IF flat_months <= 0 THEN [err |-> ValueError("flat_months must be > 0"), value |-> <<>>]
    ELSE IF ramp_months <= 0
    THEN [err |-> ValueError("ramp_months must be > 0"), value |-> <<>>]
    ELSE [err |-> NoError,
          value |-> JoinBlanks(
              <<SchedulePart(Round3(x), flat_months)>>
              \o [i \in 1..(ramp_months - 1) |->
                    SchedulePart(ScheduleValue(Round3(x), ramp_months, i, ties_up), 1)]
              \o << <<"1", ".", "0", "x", " ", "f", "o", "r", " ", "1", " ", "1", "x">> >>)]

\* dial_schedule(x, flat_months, ramp_months), x in units of 1e-4: the
\* string it returns, or the ValueError it raises.  ties_up says which
\* way the ramp values that are exact ties were rounded.
dial_schedule(x, flat_months, ramp_months, ties_up) ==
    IF flat_months <= 0 THEN [err |-> ValueError("flat_months must be > 0"), value |-> <<>>]
    ELSE IF ramp_months <= 0
    THEN [err |-> ValueError("ramp_months must be > 0"), value |-> <<>>]
    ELSE [err |-> NoError,
          value |-> JoinBlanks(
              <<SchedulePart(Round3(x), flat_months)>>
              \o [i \in 1..ramp_months |->
                    SchedulePart(ScheduleValue(Round3(x), ramp_months, i, ties_up), 1)]
              \o << <<"1", ".", "0", "x", " ", "f", "o", "r", " ", "1", " ", "1", "x">> >>)]

\* The multipliers given to dial_schedule, in units of 1e-4: 1.05, 0.9,
\* 1.0, 1.2346, 2, 0 and -0.5; the month counts: from -1 to the bounds,
\* and the defaults; and for the short ramps every way their ties can go.
InitSchedule ==
    /\ LET ScheduleMultipliers ==
               {Dial105, Dial090, Dial1, DialValue(1, 2346), DialValue(2, 0),
                DialValue(0, 0), -DialValue(0, 5000)}
           FlatInputs == (-1..MaxFlat) \cup {DefaultFlatMonths}
           RampInputs == (-1..MaxRamp) \cup {DefaultRampMonths}
           TieInputs(ramp_months) ==
               IF ramp_months = DefaultRampMonths THEN {{}} ELSE SUBSET (1..ramp_months)
       IN  last \in UNION { { [x |-> x, flat_months |-> flat, ramp_months |-> ramp,
                                ties_up |-> ups] :
                                 x \in ScheduleMultipliers, flat \in FlatInputs,
                                 ups \in TieInputs(ramp) } : ramp \in RampInputs }
    /\ out = <<>>
    /\ pc = "idle"
    /\ data = EmptyDict
    /\ pre = EmptyDict
    /\ err = NoError
    /\ wellStart = TRUE
    /\ file = <<>>

\* dial_schedule(x, flat_months, ramp_months): the string it returns, or
\* the exception it raises.
Schedule ==
    /\ pc = "idle"
    /\ out' = dial_schedule(last.x, last.flat_months, last.ramp_months, last.ties_up)
    /\ pc' = "returned"
    /\ UNCHANGED <<data, pre, last, err, wellStart, file>>

NextSchedule == Schedule

SpecSchedule == InitSchedule /\ [][NextSchedule]_vars

\* --- C20
\* The pieces of str between its blanks.
RECURSIVE SplitBlanks(_)
SplitBlanks(str) ==
    IF Find(str, " ", 1) = 0 THEN <<str>>
    ELSE <<SubSeq(str, 1, Find(str, " ", 1) - 1)>>
             \o SplitBlanks(SubSeq(str, Find(str, " ", 1) + 1, Len(str)))

\* word is "<num>x": an optional sign, digits, and optionally a point
\* and digits, then "x".
IsMultiplier(word) ==
    LET start == IF At(word, 1) = "-" THEN 2 ELSE 1
        stop == DigitsEnd(word, start)
    IN  /\ stop > start
        /\ \/ stop = Len(word) /\ word[stop] = "x"
           \/ /\ At(word, stop) = "."
              /\ DigitsEnd(word, stop + 1) > stop + 1
              /\ DigitsEnd(word, stop + 1) = Len(word)
              /\ word[Len(word)] = "x"

\* The number of "<num>x" in thousandths, for a number of at most three
\* decimals.
PadRight(digits) ==
    digits \o [i \in 1..(3 - Len(digits)) |-> "0"]
MultiplierValue(word) ==
    LET start == IF At(word, 1) = "-" THEN 2 ELSE 1
        stop == DigitsEnd(word, start)
        whole == IntOf(SubSeq(word, start, stop - 1))
        decimals == IF At(word, stop) = "."
                    THEN IntOf(PadRight(SubSeq(word, stop + 1, Len(word) - 1)))
                    ELSE 0
    IN  IF start = 2 THEN -(whole * 1000 + decimals) ELSE whole * 1000 + decimals

\* The j-th token of three words ("<num>x", "for", "<months>") of the
\* words.
TokenAt(words, j) == SubSeq(words, 3 * j - 2, 3 * j)
IsToken(token) == Len(token) = 3 /\ IsMultiplier(token[1]) /\ token[2] = <<"f", "o", "r">>
\* The token has the form "<num>x for 1".
IsRampForm(token) == IsToken(token) /\ token[3] = <<"1">>

ScheduleTail == <<"1", ".", "0", "x", " ", "f", "o", "r", " ", "1", " ", "1", "x">>
EndsWith(str, tail) ==
    Len(str) >= Len(tail) /\ SubSeq(str, Len(str) - Len(tail) + 1, Len(str)) = tail

\* dial_schedule was called with positive month counts and returned.
C20_Case == pc = "returned" /\ last.flat_months > 0 /\ last.ramp_months > 0

\* C20: for every multiplier and positive month counts, dial_schedule
\* returns a string of tokens separated by single blanks: first the flat
\* token "<x>x for <flat_months>", whose number is x rounded to three
\* decimals; then ramp_months tokens of the form "<num>x for 1"; then
\* "1.0x for 1" and "1x", with which the string ends.  The only tokens of
\* the form "<num>x for 1" beside the ramp's are that last "1.0x for 1"
\* and, when flat_months is 1, the flat token.  dial_schedule(1.05, 48,
\* 23) begins "1.05x for 48 " and has 23 ramp tokens.
C20_ScheduleShape ==
    C20_Case =>
        /\ ~Raised(out.err)
        /\ LET words == SplitBlanks(out.value)
               n == last.ramp_months
           IN  /\ Len(words) = 3 * (n + 2) + 1
               /\ IsToken(TokenAt(words, 1))
               /\ MultiplierValue(words[1]) = Round3(last.x)
               /\ words[3] = StrOf(last.flat_months)
               /\ \A j \in 2..(n + 1) : IsRampForm(TokenAt(words, j))
               /\ TokenAt(words, n + 2) = << <<"1", ".", "0", "x">>, <<"f", "o", "r">>, <<"1">> >>
               /\ words[Len(words)] = <<"1", "x">>
               /\ EndsWith(out.value, ScheduleTail)
               /\ {j \in 1..(n + 2) : IsRampForm(TokenAt(words, j))}
                      = (2..(n + 2)) \cup (IF last.flat_months = 1 THEN {1} ELSE {})
               /\ (last.x = Dial105 /\ last.flat_months = 48 /\ n = 23) =>
                      /\ SubSeq(out.value, 1, 13) =
                             <<"1", ".", "0", "5", "x", " ", "f", "o", "r", " ", "4", "8", " ">>
                      /\ Cardinality({j \in 2..(Len(words) \div 3 - 1) :
                                         IsRampForm(TokenAt(words, j))}) = 23

\* dial_schedule(1.05, 48, 23) returned its string, whose last ramp token
\* is "1.002x for 1".
C20_Witness ==
    /\ C20_Case
    /\ last.x = Dial105 /\ last.flat_months = 48 /\ last.ramp_months = 23
    /\ ~Raised(out.err)
    /\ TokenAt(SplitBlanks(out.value), 24) =
           << <<"1", ".", "0", "0", "2", "x">>, <<"f", "o", "r">>, <<"1">> >>

\* --- C21
\* The numbers of the ramp tokens of the returned string, in thousandths.
RampValues ==
    [j \in 1..last.ramp_months |-> MultiplierValue(SplitBlanks(out.value)[3 * j + 1])]

\* dial_schedule was called with a multiplier above 1 (after rounding)
\* and positive month counts, and returned.
C21_Case == C20_Case /\ ~Raised(out.err) /\ Round3(last.x) > 1000

NonIncreasing(values) == \A i \in 1..(Len(values) - 1) : values[i] >= values[i + 1]

\* C21 as stated: the ramp values do not increase, the first is strictly
\* below x and the last is 1.0.
C21_RampBelowXToOne ==
    C21_Case =>
        /\ NonIncreasing(RampValues)
        /\ RampValues[1] < Round3(last.x)
        /\ RampValues[last.ramp_months] = 1000

\* C21, amended: for x above 1 the ramp values do not increase; the first
\* is x itself (rounded to three decimals), not a value below it; none is
\* below 1.0; and the last is 1 + (x - 1) / N rounded to three decimals,
\* which is 1.002 for x = 1.05 and N = 23 (the 1.0 is the token that
\* follows the ramp).
C21_RampFromX ==
    C21_Case =>
        LET n == last.ramp_months
            xm == Round3(last.x)
            off == n * (RampValues[n] - 1000) - (xm - 1000)
        IN  /\ NonIncreasing(RampValues)
            /\ RampValues[1] = xm
            /\ \A i \in 1..n : RampValues[i] >= 1000
            /\ 2 * off <= n /\ 2 * off >= -n
            /\ (last.x = Dial105 /\ n = 23) => RampValues[n] = 1002

\* dial_schedule(1.05, 48, 23) returned: its ramp goes from 1.05 to 1.002
\* and falls in between.
C21_Witness ==
    /\ C21_Case
    /\ last.x = Dial105 /\ last.flat_months = 48 /\ last.ramp_months = 23
    /\ RampValues[1] = 1050
    /\ RampValues[2] = 1048
    /\ RampValues[23] = 1002

\* --- C22
\* The last call was given one non-identity cohort override whose name is
\* the Cohort of at least one entry of the cohort list of the leaf it
\* names.
C22_Case ==
    /\ Single
    /\ NonIdentity(TheOverride)
    /\ HasCohortName(TheOverride)
    /\ HasTarget(pre, TheOverride)
    /\ Has(PreNode, "Shock")
    /\ Has(PreNode["Shock"], "Cohorts")
    /\ TheOverride["cohort"] \in NamesOf(PreNode["Shock"]["Cohorts"])

\* C22: a non-identity cohort override whose name matches one or more
\* entries of the leaf's cohort list returns, whatever its flags; the
\* list keeps its length and order; every entry of that name has the
\* override's start date and dial schedule (and keeps its other fields);
\* every entry of another name is as it was.
C22_UpdatesEveryMatch ==
    C22_Case =>
        /\ ~Raised(err)
        /\ Has(PostNode, "Shock") /\ Has(PostNode["Shock"], "Cohorts")
        /\ Len(PostNode["Shock"]["Cohorts"]) = Len(PreNode["Shock"]["Cohorts"])
        /\ \A i \in 1..Len(PreNode["Shock"]["Cohorts"]) :
              LET before == PreNode["Shock"]["Cohorts"][i]
                  after == PostNode["Shock"]["Cohorts"][i]
              IN  IF Get(before, "Cohort", None) = TheOverride["cohort"]
                  THEN /\ after["StartDate"] = TheOverride["start_date"]
                       /\ after["Detail"] = dial(TheOverride["dial"])
                       /\ DOMAIN after = DOMAIN before \cup {"StartDate", "Detail"}
                       /\ \A k \in DOMAIN before \ {"StartDate", "Detail"} :
                             after[k] = before[k]
                  ELSE after = before

\* The name matched two entries that differed, and both were rewritten.
C22_Witness ==
    /\ C22_Case
    /\ Len(PreNode["Shock"]["Cohorts"]) = 2
    /\ PreNode["Shock"]["Cohorts"][1]["Cohort"] = PreNode["Shock"]["Cohorts"][2]["Cohort"]
    /\ PreNode["Shock"]["Cohorts"][1] # PreNode["Shock"]["Cohorts"][2]
    /\ PostNode["Shock"]["Cohorts"] = <<EntryOf(TheOverride), EntryOf(TheOverride)>>

\* --- C23
\* The last call was given one identity-dial override that names a cohort
\* and a leaf whose Shock is simple.
C23_Case ==
    /\ Single
    /\ ~NonIdentity(TheOverride)
    /\ HasCohortName(TheOverride)
    /\ HasTarget(pre, TheOverride)
    /\ PreSimple

\* C23: an identity-dial override that names a cohort, applied to a leaf
\* whose Shock is simple, returns and leaves the leaf without its Shock
\* key, whatever the cohort name; the rest of the leaf and of the document
\* is as it was.
C23_SimpleShockDeleted ==
    C23_Case =>
        /\ ~Raised(err)
        /\ ~Has(PostNode, "Shock")
        /\ PostNode = Del(PreNode, "Shock")
        /\ data = SetNodeAt(pre, PathOf(TheOverride), Del(PreNode, "Shock"))

\* A simple Shock with a start date and a dial schedule was deleted by an
\* identity override that named cohort B.
C23_Witness ==
    /\ C23_Case
    /\ TheOverride["cohort"] = CohortB
    /\ DOMAIN PreNode["Shock"] = {"StartDate", "Detail"}
    /\ ~Has(PostNode, "Shock")

\* ===================================== the generator on cohort shocks
\* Documents whose two leaves hold any Shock: none, simple, and cohort
\* lists that are missing, empty, of one entry, of two names, of one entry
\* twice, of one name twice, and with identity entries; leaf T tagged
\* like the detail leaf or otherwise.
DocumentTagged(tagT, shockT, shockD) ==
    [Key |-> [Version |-> Version0],
     State |-> [s \in {StateS} |->
        [Transitions |-> [t \in {LeafT, GroupG} |->
            IF t = LeafT THEN Leaf(tagT, shockT)
            ELSE [Detail |-> JDict([x \in {DetailD} |-> Leaf(<<"m">>, shockD)]),
                  Version |-> Version0]]]]]

GenerateShocksT ==
    { <<>>,
      <<SimpleShock(Date1, Dial105)>>,
      <<CohortShock(<<>>)>>,
      <<[HasCohort |-> TRUE]>>,
      <<CohortShock(<<Entry(CohortA, Date1, Dial105)>>)>>,
      <<CohortShock(<<Entry(CohortA, Date1, Dial105), Entry(CohortB, Date2, Dial090)>>)>>,
      <<CohortShock(<<Entry(CohortA, Date1, Dial105), Entry(CohortA, Date1, Dial105)>>)>>,
      <<CohortShock(<<Entry(CohortA, Date1, Dial1), Entry(CohortB, Date2, Dial090)>>)>>,
      <<CohortShock(<<Entry(CohortA, Date1, Dial1)>>)>>,
      <<CohortShock(<<Entry(CohortA, Date2, Dial090)>>)>> }

GenerateShocksD ==
    { <<>>,
      <<SimpleShock(Date1, Dial105)>>,
      <<CohortShock(<<>>)>>,
      <<CohortShock(<<Entry(CohortA, Date1, Dial105)>>)>>,
      <<CohortShock(<<Entry(CohortB, Date2, Dial090), Entry(CohortA, Date1, Dial105)>>)>>,
      <<CohortShock(<<Entry(CohortA, Date1, Dial105), Entry(CohortA, Date2, Dial090)>>)>> }

GenerateDocuments ==
    { DocumentTagged(tag, a, b) :
        tag \in {<<"m">>, <<"n">>}, a \in GenerateShocksT, b \in GenerateShocksD }

InitGenerate ==
    /\ data \in GenerateDocuments
    /\ pre = data
    /\ last \in GenerateSettings
    /\ err = NoError
    /\ pc = "idle"
    /\ wellStart = ShapesOK(data)
    /\ out = <<>>
    /\ file = <<>>

\* The generator run on such a document, and its list applied to the
\* copy without Shocks.
SpecGenerate == InitGenerate /\ [][NextRoundTrip]_vars

\* --- C24
Generated == pc \in {"generated", "returned"}

\* The atomic overrides a generated list stands for, in order: each
\* override with targets once per target.
Expansion(overrides) ==
    Concat([i \in 1..Len(overrides) |-> _expand_override_targets(overrides[i]).list])

\* The override names the leaf at path, alone or among its targets.
Names(override, path) ==
    \E i \in 1..Len(Expansion(<<override>>)) : PathOf(Expansion(<<override>>)[i]) = path

\* Cohort name, start date and dial of an override.
Carried(override) ==
    <<Get(override, "cohort", None), override["start_date"], override["dial"]>>

\* What the cohort-shaped Shock of a leaf asks for: the placeholder when
\* it has no entries, else name, start date and multiplier of each entry
\* whose multiplier is not identity, in list order.
Asked(shock) ==
    IF ~Has(shock, "Cohorts") \/ Get(shock, "Cohorts", <<>>) = <<>>
    THEN << <<COHORT_NAME, last.default_start_date, last.default_dial>> >>
    ELSE Concat([i \in 1..Len(shock["Cohorts"]) |->
            IF Round3(Multiplier(shock["Cohorts"][i])) = 1000 THEN <<>>
            ELSE << <<shock["Cohorts"][i]["Cohort"], shock["Cohorts"][i]["StartDate"],
                      Multiplier(shock["Cohorts"][i])>> >>])

\* The leaves of the document that hold a cohort-shaped Shock.
CohortLeaves ==
    {path \in LeafPaths(pre) :
        Has(NodeAt(pre, path), "Shock") /\ IsCohortShaped(NodeAt(pre, path)["Shock"])}

\* The overrides of the list that name the leaf, and what they carry.
CarriedFor(overrides, path) ==
    LET mine == SelectSeq(overrides, LAMBDA o : Names(o, path))
    IN  [i \in 1..Len(mine) |-> Carried(mine[i])]

\* How often item occurs in the list.
Count(list, item) == Cardinality({i \in 1..Len(list) : list[i] = item})
SameItems(a, b) ==
    /\ Len(a) = Len(b)
    /\ \A i \in 1..Len(a) : Count(a, a[i]) = Count(b, a[i])

\* C24 as stated: for every leaf with a cohort-shaped Shock the generated
\* list holds exactly one override for the placeholder, or exactly one
\* per entry whose multiplier is not identity, in list order, with the
\* entry's name, start date and multiplier.
C24_OnePerEntry ==
    Generated =>
        \A path \in CohortLeaves :
            CarriedFor(out, path) = Asked(NodeAt(pre, path)["Shock"])

\* C24, amended: that holds when group_by_model_detail is off.  When it
\* is on, entries of leaves with the same tag that agree in name, start
\* date and multiplier share one override: the list then names the leaf
\* once per such entry (in an override's targets or alone), with the
\* entry's name, start date and multiplier, not always in list order.
C24_OnePerEntryBeforeGrouping ==
    Generated =>
        \A path \in CohortLeaves :
            IF ~last.group_by_model_detail
            THEN CarriedFor(out, path) = Asked(NodeAt(pre, path)["Shock"])
            ELSE SameItems(CarriedFor(Expansion(out), path),
                           Asked(NodeAt(pre, path)["Shock"]))

\* Without grouping: leaf T holds an identity entry and another, the
\* detail leaf an empty list; the list holds one override for the other
\* entry and one placeholder.
C24_Witness ==
    /\ Generated
    /\ ~last.group_by_model_detail
    /\ Cardinality(CohortLeaves) = 2
    /\ CarriedFor(out, <<StateS, LeafT, None>>) = << <<CohortB, Date2, Dial090>> >>
    /\ Len(NodeAt(pre, <<StateS, LeafT, None>>)["Shock"]["Cohorts"]) = 2
    /\ CarriedFor(out, <<StateS, GroupG, DetailD>>)
         = << <<COHORT_NAME, last.default_start_date, last.default_dial>> >>

\* --- C25
\* The overrides the generator gives for the document when it neither
\* groups nor compacts: one atomic override per leaf or cohort entry.
Ungrouped ==
    generate_all_transition_overrides(pre, last.default_start_date, last.default_dial,
                                      FALSE, last.only_with_shock, FALSE)

\* The model detail tag of the leaf an atomic override names, and the
\* key (tag, cohort, start_date, dial) of the override.
TagOf(override) == NodeAt(pre, PathOf(override))["Detail"].str
KeyOf(override) == <<TagOf(override)>> \o Carried(override)

\* The override is the placeholder of a leaf whose cohort list is
\* missing or empty.
IsPlaceholder(override) ==
    LET node == NodeAt(pre, PathOf(override))
    IN  /\ Has(node, "Shock")
        /\ IsCohortShaped(node["Shock"])
        /\ Get(node["Shock"], "Cohorts", <<>>) = <<>>

\* The ungrouped overrides of one key, in order.
Members(key) == SelectSeq(Ungrouped, LAMBDA o : KeyOf(o) = key)
PathsOf(overrides) == [i \in 1..Len(overrides) |-> PathOf(overrides[i])]

\* The overrides of the result that stand for the key: those whose
\* atomic overrides have it.
StandFor(key) ==
    SelectSeq(out, LAMBDA o :
        \E i \in 1..Len(Expansion(<<o>>)) : KeyOf(Expansion(<<o>>)[i]) = key)

C25_Case == Generated /\ last.group_by_model_detail

\* C25 as stated: with grouping on, the overrides of one key are one
\* override of the result; it has targets when the key has several
\* members, each member's path being named exactly once, and is a plain
\* atomic override when the key has one member.
C25_MergedByKey ==
    C25_Case =>
        \A m \in 1..Len(Ungrouped) :
            LET key == KeyOf(Ungrouped[m])
                mine == StandFor(key)
            IN  /\ Len(mine) = 1
                /\ IF Len(Members(key)) = 1
                   THEN ~Has(mine[1], "targets") /\ Expansion(mine) = Members(key)
                   ELSE /\ Has(mine[1], "targets")
                        /\ \A i \in 1..Len(Members(key)) :
                              Count(PathsOf(Expansion(mine)), PathOf(Members(key)[i])) = 1

\* C25, amended: that holds of the overrides that carry a tag, which the
\* placeholder overrides of empty cohort lists do not: each placeholder
\* stays an atomic override of its own, whatever it shares with others.
\* The targets of a merged override name the members' leaves in order,
\* one target per member, so that a leaf whose cohort list holds the same
\* entry twice is named twice.
C25_MergedByTaggedKey ==
    C25_Case =>
        \A m \in 1..Len(Ungrouped) :
            LET key == KeyOf(Ungrouped[m])
                tagged == SelectSeq(Members(key), LAMBDA o : ~IsPlaceholder(o))
                mine == SelectSeq(StandFor(key),
                                  LAMBDA o : Has(o, "targets") \/ ~IsPlaceholder(Expansion(<<o>>)[1]))
                alone == SelectSeq(StandFor(key),
                                  LAMBDA o : ~Has(o, "targets") /\ IsPlaceholder(Expansion(<<o>>)[1]))
            IN  /\ Expansion(alone) = SelectSeq(Members(key), IsPlaceholder)
                /\ Len(alone) = Len(Expansion(alone))
                /\ tagged # <<>> =>
                      /\ Len(mine) = 1
                      /\ Has(mine[1], "targets") <=> Len(tagged) > 1
                      /\ Has(mine[1], "targets") =>
                            /\ mine[1]["model_detail"] = key[1]
                            /\ Len(mine[1]["targets"].list) = Len(tagged)
                      /\ PathsOf(Expansion(mine)) = PathsOf(tagged)
                      /\ \A i \in 1..Len(tagged) : Carried(Expansion(mine)[i]) = Carried(tagged[i])
                /\ tagged = <<>> => mine = <<>>

\* Leaf T holds entries A and B, the detail leaf, tagged alike, entry A
\* again: the result is one override with the two leaves as targets and
\* one atomic override for B.
C25_Witness ==
    /\ C25_Case
    /\ Len(out) = 2
    /\ Has(out[1], "targets")
    /\ PathsOf(Expansion(<<out[1]>>)) = << <<StateS, LeafT, None>>, <<StateS, GroupG, DetailD>> >>
    /\ Carried(out[1]) = <<CohortA, Date1, Dial105>>
    /\ ~Has(out[2], "targets")
    /\ Carried(out[2]) = <<CohortB, Date2, Dial090>>

\* ================== dial_utils.build_columns_from_status_header
\* A header cell is a string, or None for a cell pandas reads as NaN.
\* _clean_header(val): "" for NaN, else the cell without the blanks
\* around it.
_clean_header(val) == IF val = None THEN <<>> ELSE Strip(val)

\* header_top: the row above, each empty cell taking the last cleaned
\* cell that was not empty to its left.
RECURSIVE ForwardFill(_, _)
ForwardFill(header_top_raw, filled) ==
    IF header_top_raw = <<>> THEN <<>>
    ELSE LET cleaned == _clean_header(Head(header_top_raw))
             now == IF cleaned # <<>> THEN cleaned ELSE filled
         IN  <<now>> \o ForwardFill(Tail(header_top_raw), now)

\* The name of one column before names are made unique.
RawColumn(top_val, base_val) ==
    LET top == _clean_header(top_val)
        base == _clean_header(base_val)
    IN  IF top # <<>> /\ base # <<>> /\ top # base THEN top \o <<" ">> \o base
        ELSE IF base # <<>> THEN base
        ELSE IF top # <<>> THEN top
        ELSE <<>>

\* The last loop, from index idx (counted from 0) on: an empty name
\* becomes "Unnamed: <idx>"; a name that is a key of seen gets its count
\* raised and ".<count>" appended; any other name becomes a key of seen,
\* with count 0.  The name with the suffix is not made a key of seen.
RECURSIVE Uniquify(_, _, _)
Uniquify(raw_columns, idx, seen) ==
    IF raw_columns = <<>> THEN <<>>
    ELSE LET col == IF Head(raw_columns) # <<>> THEN Head(raw_columns)
                    ELSE <<"U", "n", "n", "a", "m", "e", "d", ":", " ">> \o StrOf(idx)
         IN  IF col \in DOMAIN seen
             THEN <<col \o <<".">> \o StrOf(seen[col] + 1)>>
                      \o Uniquify(Tail(raw_columns), idx + 1,
                                  [seen EXCEPT ![col] = @ + 1])
             ELSE <<col>> \o Uniquify(Tail(raw_columns), idx + 1, Put(seen, col, 0))

\* build_columns_from_status_header, given the Status row and the row
\* above it (all NaN when the Status row is the first).
build_columns_from_status_header(header_top_raw, header_main) ==
    LET header_top == ForwardFill(header_top_raw, <<>>)
        raw_columns == [i \in 1..Len(header_main) |-> RawColumn(header_top[i], header_main[i])]
    IN  Uniquify(raw_columns, 0, EmptyDict)

\* The cells of the Status row: NaN, "A", "A.1", "B" and " A"; those of
\* the row above: NaN, "G" and "A".
InitColumns ==
    /\ LET MainCells == {None, <<"A">>, <<"A", ".", "1">>, <<"B">>, <<" ", "A">>}
           TopCells == {None, <<"G">>, <<"A">>}
       IN  last \in UNION { [header_top_raw : [1..n -> TopCells],
                             header_main : [1..n -> MainCells]] : n \in 0..MaxColumns }
    /\ out = <<>>
    /\ pc = "idle"
    /\ data = EmptyDict
    /\ pre = EmptyDict
    /\ err = NoError
    /\ wellStart = TRUE
    /\ file = <<>>

\* build_columns_from_status_header returns the column names.
BuildColumns ==
    /\ pc = "idle"
    /\ out' = build_columns_from_status_header(last.header_top_raw, last.header_main)
    /\ pc' = "returned"
    /\ UNCHANGED <<data, pre, last, err, wellStart, file>>

NextColumns == BuildColumns

SpecColumns == InitColumns /\ [][NextColumns]_vars

\* --- C26
\* C26: for any Status row and row above it, the list returned has one
\* name per column, no name is empty and no two names are equal.
C26_UniqueNonEmpty ==
    pc = "returned" =>
        /\ Len(out) = Len(last.header_main)
        /\ \A i \in 1..Len(out) : out[i] # <<>>
        /\ \A i, j \in 1..Len(out) : i # j => out[i] # out[j]

\* What the code does keep: one name per column, and none empty.
C26_OnePerColumn ==
    pc = "returned" =>
        /\ Len(out) = Len(last.header_main)
        /\ \A i \in 1..Len(out) : out[i] # <<>>

\* The Status row "A", "A", "A.1" under an empty row gave "A", "A.1",
\* "A.1".
C26_Collision ==
    /\ pc = "returned"
    /\ last.header_main = << <<"A">>, <<"A">>, <<"A", ".", "1">> >>
    /\ out = << <<"A">>, <<"A", ".", "1">>, <<"A", ".", "1">> >>

\* --- C27
\* The grouped transition nodes of the document: those whose Detail is a
\* mapping.
GroupNodes(d) ==
    UNION { { d["State"][st]["Transitions"][t] :
                t \in { x \in DOMAIN d["State"][st]["Transitions"] :
                          /\ Has(d["State"][st]["Transitions"][x], "Detail")
                          /\ IsDict(d["State"][st]["Transitions"][x]["Detail"]) } }
            : st \in DOMAIN d["State"] }

\* C27: the documents loaded have no Shock on a grouped transition node,
\* and after any sequence of calls none has one: no override, one that
\* names a grouped transition without a detail included, writes a Shock
\* onto a group node.
C27_GroupsShockFree ==
    \A node \in GroupNodes(data) : ~Has(node, "Shock")

\* One non-identity override that names the grouped transition G without
\* a detail returned, and G, which had no Shock, holds one beside its
\* Detail mapping.
C27_ShockOnGroup ==
    /\ Single
    /\ ~Raised(err)
    /\ ~Has(TheOverride, "detail")
    /\ TheOverride["transition"] = GroupG
    /\ \A node \in GroupNodes(pre) : ~Has(node, "Shock")
    /\ \E node \in GroupNodes(data) : Has(node, "Shock")

\* --- C28
\* C28: when the one atomic override of a call raises, whatever the
\* exception, the document is exactly the document before the call, the
\* Shock of the node the override names included.
C28_FailedOverrideChangesNothing ==
    (Single /\ Raised(err)) => data = pre

\* A cohort override with add_cohort and convert_cohort false failed for
\* its missing cohort on a leaf whose Shock was {HasCohort: true}, and the
\* Shock has come out with an empty Cohorts list.
C28_NormalisedThenFailed ==
    /\ Single
    /\ err = KeyError("Missing cohort")
    /\ HasTarget(pre, TheOverride)
    /\ PreNode["Shock"] = [HasCohort |-> TRUE]
    /\ PostNode["Shock"] = [HasCohort |-> TRUE, Cohorts |-> <<>>]
    /\ data # pre

\* =============================== grouping and compaction, applied
\* The generator run on the documents with cohort shocks and on those
\* with a leaf whose name holds an "@", and its list applied to the copy
\* without Shocks.
InitMeaning ==
    /\ data \in GenerateDocuments \cup RoundTripDocuments
    /\ pre = data
    /\ last \in GenerateSettings
    /\ err = NoError
    /\ pc = "idle"
    /\ wellStart = ShapesOK(data)
    /\ out = <<>>
    /\ file = <<>>

SpecMeaning == InitMeaning /\ [][NextRoundTrip]_vars

\* --- C29
\* What applying the list generated without grouping and compaction to
\* the copy without Shocks gives.
PlainApplied == apply_dial_overrides(StripShocks(pre), Ungrouped)

C29_Case == pc = "returned"

\* C29 as stated: for every document and setting, the list generated
\* with grouping or compaction on, applied to the copy without Shocks,
\* gives the document that the list generated with both off gives.
C29_SameAsPlain ==
    C29_Case => (data = PlainApplied.data /\ err = PlainApplied.err)

\* The names of the document can be carried by the target shorthand, or
\* no shorthand is written.
C29_Carried == ~last.compact_targets \/ WellFormedNames(pre)

\* No leaf of d lists one cohort name twice.
DistinctNames(d) ==
    \A path \in LeafPaths(d) :
        LET node == NodeAt(d, path)
        IN  (Has(node, "Shock") /\ Has(node["Shock"], "Cohorts")) =>
                LET cohorts == node["Shock"]["Cohorts"]
                IN  \A i, j \in 1..Len(cohorts) :
                        i # j => cohorts[i]["Cohort"] # cohorts[j]["Cohort"]

\* Every leaf has in a and in b the same Shock, the order of its cohort
\* entries apart.
SameUpToOrder(a, b) ==
    \A path \in LeafPaths(pre) :
        LET x == NodeAt(a, path)
            y == NodeAt(b, path)
        IN  /\ Has(x, "Shock") <=> Has(y, "Shock")
            /\ Has(x, "Shock") =>
                 IF Has(x["Shock"], "Cohorts")
                 THEN /\ Has(y["Shock"], "Cohorts")
                      /\ SameItems(x["Shock"]["Cohorts"], y["Shock"]["Cohorts"])
                      /\ Del(x["Shock"], "Cohorts") = Del(y["Shock"], "Cohorts")
                      /\ Del(x, "Shock") = Del(y, "Shock")
                 ELSE x = y

\* C29, amended: when every name of the document can be carried by the
\* target shorthand (or compaction is off), both lists apply without
\* error; with grouping off the two documents are equal; with grouping
\* on, and no leaf listing one cohort name twice, every leaf has the
\* same Shock with the same cohort entries, not always in the same
\* order.
C29_SameUpToGroupOrder ==
    (C29_Case /\ C29_Carried) =>
        /\ ~Raised(err)
        /\ ~Raised(PlainApplied.err)
        /\ ~last.group_by_model_detail => data = PlainApplied.data
        /\ DistinctNames(pre) => SameUpToOrder(data, PlainApplied.data)

\* A grouped and compacted list was applied and gave, on the detail
\* leaf, the two cohort entries of the plain list in the other order.
C29_Witness ==
    /\ C29_Case
    /\ last.group_by_model_detail
    /\ last.compact_targets
    /\ DistinctNames(pre)
    /\ \E i \in 1..Len(out) : Has(out[i], "targets")
    /\ data # PlainApplied.data
    /\ LET path == <<StateS, GroupG, DetailD>>
       IN  /\ Has(NodeAt(data, path), "Shock")
           /\ Has(NodeAt(data, path)["Shock"], "Cohorts")
           /\ Len(NodeAt(data, path)["Shock"]["Cohorts"]) = 2

\* --- C30
\* What applying the override of the last call once more gives.
Again == apply_dial_overrides(data, last)

C30_Case == Single /\ ~Raised(err)

\* C30: when applying one atomic override succeeded, applying it again
\* at once succeeds too and leaves the document as the first application
\* left it.
C30_SecondChangesNothing ==
    C30_Case => (~Raised(Again.err) /\ Again.data = data)

\* An override with convert_cohort succeeded on a leaf that held a
\* simple Shock and left it a cohort Shock with the named entry.
C30_Witness ==
    /\ C30_Case
    /\ HasCohortName(TheOverride)
    /\ NonIdentity(TheOverride)
    /\ HasTarget(pre, TheOverride)
    /\ Has(PreNode, "Shock")
    /\ ~_is_cohort_shock(PreNode["Shock"])
    /\ Has(PostNode, "Shock")
    /\ _is_cohort_shock(PostNode["Shock"])
    /\ data # pre

====
